---- MODULE Spec2Model ----
(***************************************************************************)
(* Model of the Diskpart command executor                                  *)
(* (src/main/diskpart/executor.ts): executeDiskpartCommand,                *)
(* executeDestructiveCommand and executeAndParse, run by concurrent        *)
(* callers against one temp directory; of the IPC handlers of the main     *)
(* process, which build a script and hand it to the executor; and of the   *)
(* script builders and output parsers, which are pure functions.  Text is  *)
(* a sequence of one-character strings, so that toLowerCase, includes,     *)
(* trim and split are computed as the code computes them.                  *)
(***************************************************************************)
EXTENDS Integers, Sequences, FiniteSets, Bags, TLC

(* ------------------------------ bounds --------------------------------- *)
\* Date.now() reads a millisecond count in 0..MaxClock; it is the wall clock,
\* so two reads may agree and a later read may be smaller
MaxClock == 0

\* number arguments of the script builders range over -1, -0.5, ... up to
\* MaxNumber + 0.5
MaxNumber == 2

\* buildCommandScript is given lists of up to MaxCommands instructions
MaxCommands == 3

\* a listing handed to a parser has up to MaxRows rows under its header
MaxRows == 2

\* up to MaxTasks asynchronous store actions are in flight at a time
MaxTasks == 2

(* ------------------------- program constants --------------------------- *)
DEFAULT_TIMEOUT == 30000
DESTRUCTIVE_TIMEOUT == 60000

(* ------------------------------ text ----------------------------------- *)
Upper == <<"A","B","C","D","E","F","G","H","I","J","K","L","M",
           "N","O","P","Q","R","S","T","U","V","W","X","Y","Z">>
Lower == <<"a","b","c","d","e","f","g","h","i","j","k","l","m",
           "n","o","p","q","r","s","t","u","v","w","x","y","z">>

LowerChar(c) ==
  IF \E k \in 1..26 : Upper[k] = c
    THEN Lower[CHOOSE k \in 1..26 : Upper[k] = c]
    ELSE c

\* String.prototype.toLowerCase
ToLowerCase(s) == [k \in 1..Len(s) |-> LowerChar(s[k])]

\* String.prototype.includes
Includes(s, sub) ==
  \E k \in 0..(Len(s) - Len(sub)) : SubSeq(s, k + 1, k + Len(sub)) = sub

IsSpace(c) == c \in {" ", "\n", "\t", "\r"}

RECURSIVE TrimStart(_)
TrimStart(s) ==
  IF s # <<>> /\ IsSpace(Head(s)) THEN TrimStart(Tail(s)) ELSE s

RECURSIVE TrimEnd(_)
TrimEnd(s) ==
  IF s # <<>> /\ IsSpace(s[Len(s)]) THEN TrimEnd(SubSeq(s, 1, Len(s) - 1)) ELSE s

\* String.prototype.trim
Trim(s) == TrimEnd(TrimStart(s))

\* String.prototype.split('\n')
RECURSIVE SplitLines(_)
SplitLines(s) ==
  IF \E k \in 1..Len(s) : s[k] = "\n"
    THEN LET k == CHOOSE j \in 1..Len(s) :
                    s[j] = "\n" /\ \A m \in 1..(j - 1) : s[m] # "\n"
         IN  <<SubSeq(s, 1, k - 1)>> \o SplitLines(SubSeq(s, k + 1, Len(s)))
    ELSE <<s>>

Digit == <<"0","1","2","3","4","5","6","7","8","9">>

\* decimal rendering of a non-negative integer inside a template literal
RECURSIVE NumberToString(_)
NumberToString(n) ==
  IF n < 10 THEN <<Digit[n + 1]>>
            ELSE NumberToString(n \div 10) \o <<Digit[(n % 10) + 1]>>

(* ------------------- errors (src/main/diskpart/errors) ----------------- *)
\* the closed set of machine codes of the DiskpartError subclasses
ErrorTaxonomy ==
  {"PRIVILEGE_ERROR", "DISK_NOT_FOUND", "PARTITION_NOT_FOUND",
   "COMMAND_EXECUTION_ERROR", "COMMAND_TIMEOUT", "PARSE_ERROR",
   "INVALID_COMMAND", "ACCESS_DENIED"}

\* new DiskpartError(message, code, details); killed and signal are the
\* fields only a child_process error carries (undefined here)
DiskpartError(message, code, details) ==
  [message |-> message, code |-> code, details |-> details,
   killed |-> FALSE, signal |-> ""]

PrivilegeError(message, details) ==
  DiskpartError(message, "PRIVILEGE_ERROR", details)

CommandExecutionError(message, details) ==
  DiskpartError(message, "COMMAND_EXECUTION_ERROR", details)

CommandTimeoutError(timeout) ==
  DiskpartError(<<"C","o","m","m","a","n","d"," ","t","i","m","e","d"," ","o","u","t"," ","a","f","t","e","r"," ">> \o NumberToString(timeout) \o <<"m","s">>,
                "COMMAND_TIMEOUT", <<>>)

AccessDeniedError ==
  DiskpartError(<<"A","c","c","e","s","s"," ","d","e","n","i","e","d"," ","t","o"," ","d","i","s","k"," ","o","r"," ","p","a","r","t","i","t","i","o","n">>, "ACCESS_DENIED", <<>>)

ParseError(message) == DiskpartError(message, "PARSE_ERROR", <<>>)

(* ------------------------ output classification ------------------------ *)
\* the six error indicators isCommandSuccessful looks for, in its order
NegativeMarkers ==
  <<<<"e","r","r","o","r">>, <<"f","a","i","l","e","d">>, <<"a","c","c","e","s","s"," ","i","s"," ","d","e","n","i","e","d">>, <<"c","a","n","n","o","t">>, <<"i","n","v","a","l","i","d">>,
    <<"n","o","t"," ","f","o","u","n","d">>>>

isCommandSuccessful(output) ==
  LET lowerOutput == ToLowerCase(output) IN
  IF Includes(lowerOutput, <<"d","i","s","k","p","a","r","t"," ","s","u","c","c","e","s","s","f","u","l","l","y">>) THEN TRUE
  ELSE IF Includes(lowerOutput, <<"c","o","m","p","l","e","t","e","d"," ","s","u","c","c","e","s","s","f","u","l","l","y">>) THEN TRUE
  ELSE IF Includes(lowerOutput, <<"e","r","r","o","r">>) THEN FALSE
  ELSE IF Includes(lowerOutput, <<"f","a","i","l","e","d">>) THEN FALSE
  ELSE IF Includes(lowerOutput, <<"a","c","c","e","s","s"," ","i","s"," ","d","e","n","i","e","d">>) THEN FALSE
  ELSE IF Includes(lowerOutput, <<"c","a","n","n","o","t">>) THEN FALSE
  ELSE IF Includes(lowerOutput, <<"i","n","v","a","l","i","d">>) THEN FALSE
  ELSE IF Includes(lowerOutput, <<"n","o","t"," ","f","o","u","n","d">>) THEN FALSE
  ELSE IF \/ Includes(lowerOutput, <<"d","i","s","k"," ","#","#","#">>)
          \/ Includes(lowerOutput, <<"v","o","l","u","m","e"," ","#","#","#">>)
          \/ Includes(lowerOutput, <<"p","a","r","t","i","t","i","o","n"," ","#","#","#">>) THEN TRUE
  ELSE Len(Trim(output)) > 0

HasErrorIndicator(line) ==
  LET lowerLine == ToLowerCase(line) IN
    \/ Includes(lowerLine, <<"e","r","r","o","r">>)
    \/ Includes(lowerLine, <<"f","a","i","l","e","d">>)
    \/ Includes(lowerLine, <<"d","e","n","i","e","d">>)
    \/ Includes(lowerLine, <<"c","a","n","n","o","t">>)
    \/ Includes(lowerLine, <<"i","n","v","a","l","i","d">>)
    \/ Includes(lowerLine, <<"n","o","t"," ","f","o","u","n","d">>)

\* the first trimmed line holding an error indicator; null is modelled as
\* the empty text, which no matching line can be
extractErrorFromOutput(output) ==
  LET split == SplitLines(output)
      lines == [k \in 1..Len(split) |-> Trim(split[k])]
  IN  IF \E k \in 1..Len(lines) : HasErrorIndicator(lines[k])
        THEN lines[CHOOSE k \in 1..Len(lines) :
                     /\ HasErrorIndicator(lines[k])
                     /\ \A m \in 1..(k - 1) : ~HasErrorIndicator(lines[m])]
        ELSE <<>>

\* a || b on strings: the empty string is falsy
OrElse(a, b) == IF a # <<>> THEN a ELSE b

(* ----------------------------- inputs ---------------------------------- *)
\* the callers that may be inside the executor at the same time
Invocations == {1, 2}

EntryPoints ==
  {"executeDiskpartCommand", "executeDestructiveCommand", "executeAndParse"}

\* what Math.random().toString(36).substring(7) can leave: the digits after
\* the seventh character, none at all for a short rendering such as "0.i"
RandomSuffixes == {"", "x2k9f"}

Paths == (0..MaxClock) \X RandomSuffixes

NoPath == <<-1, "">>

\* captured stdout and stderr of diskpart runs that exited normally
Outputs ==
  { [stdout |-> <<>>, stderr |-> <<>>],
    [stdout |-> <<"D","i","s","k","P","a","r","t"," ","s","u","c","c","e","s","s","f","u","l","l","y"," ","c","l","e","a","n","e","d"," ","t","h","e"," ","d","i","s","k",".">>, stderr |-> <<>>],
    [stdout |-> <<"D","i","s","k","P","a","r","t"," ","s","u","c","c","e","s","s","f","u","l","l","y"," ","a","s","s","i","g","n","e","d"," ","t","h","e"," ","d","r","i","v","e"," ","l","e","t","t","e","r",".","\n","V","i","r","t","u","a","l"," ","D","i","s","k"," ","S","e","r","v","i","c","e"," ","e","r","r","o","r",":","\n","T","h","e"," ","m","e","d","i","a"," ","i","s"," ","w","r","i","t","e"," ","p","r","o","t","e","c","t","e","d",".">>,
     stderr |-> <<>>],
    [stdout |-> <<"A","c","c","e","s","s"," ","i","s"," ","d","e","n","i","e","d",".">>, stderr |-> <<>>],
    [stdout |-> <<"D","i","s","k"," ","1"," ","i","s"," ","n","o","w"," ","t","h","e"," ","s","e","l","e","c","t","e","d"," ","d","i","s","k",".">>,
     stderr |-> <<"T","h","e"," ","s","y","s","t","e","m"," ","c","a","n","n","o","t"," ","f","i","n","d"," ","t","h","e"," ","f","i","l","e"," ","s","p","e","c","i","f","i","e","d",".">>],
    [stdout |-> <<" "," ","D","i","s","k"," ","#","#","#"," "," ","S","t","a","t","u","s","\n"," "," ","D","i","s","k"," ","0"," "," "," "," ","O","n","l","i","n","e">>, stderr |-> <<>>] }

\* rejections of execAsync: error.message, error.killed, error.signal
ExecErrors ==
  { [message |-> <<"C","o","m","m","a","n","d"," ","f","a","i","l","e","d",":"," ","d","i","s","k","p","a","r","t"," ","/","s">>, killed |-> TRUE, signal |-> "SIGTERM"],
    [message |-> <<"C","o","m","m","a","n","d"," ","f","a","i","l","e","d",":"," ","A","c","c","e","s","s"," ","i","s"," ","d","e","n","i","e","d",".">>, killed |-> FALSE, signal |-> "SIGTERM"],
    [message |-> <<"C","o","m","m","a","n","d"," ","f","a","i","l","e","d",":"," ","A","c","c","e","s","s"," ","i","s"," ","D","E","N","I","E","D",".">>, killed |-> FALSE, signal |-> ""],
    [message |-> <<"s","p","a","w","n"," ","d","i","s","k","p","a","r","t"," ","E","N","O","E","N","T">>, killed |-> FALSE, signal |-> ""] }

\* message of a failed fs.promises.writeFile
WriteFailure == <<"E","N","O","S","P","C",":"," ","n","o"," ","s","p","a","c","e"," ","l","e","f","t"," ","o","n"," ","d","e","v","i","c","e">>

\* message thrown by a parser that rejects the output
ParserFailure == <<"C","o","u","l","d"," ","n","o","t"," ","f","i","n","d"," ","d","i","s","k"," ","l","i","s","t"," ","h","e","a","d","e","r"," ","i","n"," ","o","u","t","p","u","t">>

(* ------------------------------ state ---------------------------------- *)
VARIABLES
  pc,          \* pc[i]: where invocation i stands
  entry,       \* entry[i]: the exported function the caller called
  timeout,     \* timeout[i]: parameter of executeDiskpartCommand
  scriptPath,  \* scriptPath[i]: path returned by createTempScript
  stdout,      \* stdout[i], stderr[i]: captured by execAsync
  stderr,
  error,       \* error[i]: the exception executeDiskpartCommand caught
  result,      \* result[i]: what executeDiskpartCommand returned
  final,       \* final[i]: what the entry point returned to its caller
  fs,          \* fs[p]: 0 if no file at p, else the invocation that wrote it
  trace,       \* trace[i]: what invocation i did to the outside, in order
  ran,         \* ran[i]: whose script was at scriptPath[i] when diskpart ran
  request,     \* the IPC request a handler of the main process is serving
  command,     \* the script that handler handed to the executor
  response,    \* what the handler returned to the renderer
  call,        \* the pure function last applied, with its arguments
  ret,         \* what that application returned or raised
  store,       \* the state of the renderer store (useDiskStore)
  tasks,       \* the asynchronous store actions awaiting an IPC response
  panel,       \* the dialogs of the operations panel
  machine,     \* machine[d]: the partitions that exist on disk d
  partitionsOf \* the disk whose query filled store.partitions

\* the state of the executor
execVars == <<pc, entry, timeout, scriptPath, stdout, stderr, error, result,
              final, fs, trace, ran>>

\* the state of the IPC handler
ipcVars == <<request, command, response>>

\* the last application of a script builder or of a parser
pureVars == <<call, ret>>

\* the renderer process and the machine it manages
rendererVars == <<store, tasks, panel, machine, partitionsOf>>

vars == <<pc, entry, timeout, scriptPath, stdout, stderr, error, result,
          final, fs, trace, ran, request, command, response, call, ret,
          store, tasks, panel, machine, partitionsOf>>

Pending == [pending |-> TRUE]

\* null, as extractErrorMessage returns it and as the store holds it for
\* "nothing selected"
Null == [null |-> TRUE]

\* the disks of the machine, the disk Windows started from, the partition
\* numbers diskpart hands out and the partitions that exist at the start
MachineDisks == {0, 1}
BootDisks == {1}
PartitionNumbers == {1, 2}
InitialPartitions == [d \in MachineDisks |-> IF d = 0 THEN {1} ELSE {1, 2}]
NoError == [none |-> TRUE]
NoRequest == [channel |-> "none"]
NoCall == [fn |-> "none"]

Init ==
  /\ pc = [i \in Invocations |-> "idle"]
  /\ entry = [i \in Invocations |-> "none"]
  /\ timeout = [i \in Invocations |-> 0]
  /\ scriptPath = [i \in Invocations |-> NoPath]
  /\ stdout = [i \in Invocations |-> <<>>]
  /\ stderr = [i \in Invocations |-> <<>>]
  /\ error = [i \in Invocations |-> NoError]
  /\ result = [i \in Invocations |-> Pending]
  /\ final = [i \in Invocations |-> Pending]
  /\ fs = [p \in Paths |-> 0]
  /\ trace = [i \in Invocations |-> <<>>]
  /\ ran = [i \in Invocations |-> 0]
  /\ request = NoRequest
  /\ command = <<>>
  /\ response = Pending
  /\ call = NoCall
  /\ ret = Pending
  /\ store = [disks |-> <<>>, partitions |-> <<>>, selectedDiskId |-> Null,
              selectedDisk |-> Null, selectedPartitionId |-> Null,
              loading |-> FALSE, isAdmin |-> FALSE]
  /\ tasks = EmptyBag
  /\ panel = [mounted |-> FALSE, executing |-> FALSE, confirmation |-> [open |-> FALSE],
              input |-> [open |-> FALSE]]
  /\ machine = InitialPartitions
  /\ partitionsOf = Null

(* --------------------- results of executeDiskpartCommand --------------- *)
\* the privilege branch left out
PassesPrivilegeCheck_Always(isAdmin) == TRUE

\* if (!isAdmin) return {...}: the call goes on only when the probe said yes
PassesPrivilegeCheck(isAdmin) == isAdmin

PrivilegeResult ==
  LET err == PrivilegeError(
               <<"A","d","m","i","n","i","s","t","r","a","t","o","r"," ","p","r","i","v","i","l","e","g","e","s"," ","r","e","q","u","i","r","e","d"," ","t","o"," ","e","x","e","c","u","t","e"," ","D","i","s","k","p","a","r","t"," ","c","o","m","m","a","n","d","s">>,
               <<"P","l","e","a","s","e"," ","r","e","s","t","a","r","t"," ","t","h","e"," ","a","p","p","l","i","c","a","t","i","o","n"," ","a","s"," ","a","d","m","i","n","i","s","t","r","a","t","o","r">>)
  IN  [success |-> FALSE, message |-> err.message, errorCode |-> err.code,
       details |-> err.details]

\* the result built after a normal exit of the subprocess
ClassifyResult(out, err) ==
  LET output == OrElse(out, OrElse(err, <<>>))
      success == isCommandSuccessful(output)
  IN  IF ~success
        THEN [success |-> FALSE,
              message |-> OrElse(extractErrorFromOutput(output), <<"C","o","m","m","a","n","d"," ","f","a","i","l","e","d">>),
              errorCode |-> "COMMAND_FAILED",
              details |-> output,
              data |-> [stdout |-> out, stderr |-> err]]
        ELSE [success |-> TRUE,
              message |-> <<"C","o","m","m","a","n","d"," ","e","x","e","c","u","t","e","d"," ","s","u","c","c","e","s","s","f","u","l","l","y">>,
              data |-> [output |-> output, stdout |-> out, stderr |-> err]]

\* the access-denied test placed before the timeout test
MapError_DeniedFirst(e, t) ==
  IF Includes(ToLowerCase(e.message), <<"a","c","c","e","s","s"," ","i","s"," ","d","e","n","i","e","d">>)
    THEN [success |-> FALSE,
          message |-> AccessDeniedError.message,
          errorCode |-> AccessDeniedError.code,
          details |-> e.message]
  ELSE IF e.killed \/ e.signal = "SIGTERM"
    THEN [success |-> FALSE,
          message |-> CommandTimeoutError(t).message,
          errorCode |-> CommandTimeoutError(t).code,
          details |-> <<"C","o","m","m","a","n","d"," ","e","x","c","e","e","d","e","d"," ","t","i","m","e","o","u","t"," ","o","f"," ">> \o NumberToString(t) \o <<"m","s">>]
  ELSE [success |-> FALSE,
        message |-> CommandExecutionError(<<"F","a","i","l","e","d"," ","t","o"," ","e","x","e","c","u","t","e"," ","D","i","s","k","p","a","r","t"," ","c","o","m","m","a","n","d">>, e.message).message,
        errorCode |-> CommandExecutionError(<<"F","a","i","l","e","d"," ","t","o"," ","e","x","e","c","u","t","e"," ","D","i","s","k","p","a","r","t"," ","c","o","m","m","a","n","d">>, e.message).code,
        details |-> e.message]

\* the outer catch block: one result per caught error
MapError(e, t) ==
  IF e.killed \/ e.signal = "SIGTERM"
    THEN [success |-> FALSE,
          message |-> CommandTimeoutError(t).message,
          errorCode |-> CommandTimeoutError(t).code,
          details |-> <<"C","o","m","m","a","n","d"," ","e","x","c","e","e","d","e","d"," ","t","i","m","e","o","u","t"," ","o","f"," ">> \o NumberToString(t) \o <<"m","s">>]
  ELSE IF Includes(ToLowerCase(e.message), <<"a","c","c","e","s","s"," ","i","s"," ","d","e","n","i","e","d">>)
    THEN [success |-> FALSE,
          message |-> AccessDeniedError.message,
          errorCode |-> AccessDeniedError.code,
          details |-> e.message]
  ELSE [success |-> FALSE,
        message |-> CommandExecutionError(<<"F","a","i","l","e","d"," ","t","o"," ","e","x","e","c","u","t","e"," ","D","i","s","k","p","a","r","t"," ","c","o","m","m","a","n","d">>, e.message).message,
        errorCode |-> CommandExecutionError(<<"F","a","i","l","e","d"," ","t","o"," ","e","x","e","c","u","t","e"," ","D","i","s","k","p","a","r","t"," ","c","o","m","m","a","n","d">>, e.message).code,
        details |-> e.message]

\* the inner try/catch left out: a rejected execAsync reaches the outer catch
\* block with no deleteTempScript on the way
Handler_NoInnerCatch(place) ==
  CASE place = "create" -> "catch"
    [] place = "invoke" -> "catch"
    [] place = "parser" -> "parseCatch"

\* the parser called outside the try block of executeAndParse
Handler_ParserUncaught(place) ==
  CASE place = "create" -> "catch"
    [] place = "invoke" -> "cleanupErr"
    [] place = "parser" -> "threw"

\* where an exception raised at a place of the code is caught: the write in
\* createTempScript by the outer try, execAsync by the inner try, the parser
\* by the try of executeAndParse; "threw" would leave the function
Handler(place) ==
  CASE place = "create" -> "catch"
    [] place = "invoke" -> "cleanupErr"
    [] place = "parser" -> "parseCatch"

\* the inner catch block running the subprocess again instead of rethrowing
AfterCleanup_Retry(at) == IF at = "cleanup" THEN "classify" ELSE "invoke"

\* where control goes after deleteTempScript, on the normal path and in the
\* inner catch block (which rethrows to the outer one)
AfterCleanup(at) == IF at = "cleanup" THEN "classify" ELSE "catch"

(* ------------------------- results of executeAndParse ------------------ *)
\* the success test left out: the parser runs on every result
ShouldParse_Always(r) == TRUE

\* if (!result.success) return result
ShouldParse(r) == r.success

\* result.data?.output || result.data?.stdout || ''
ParserInput(r) ==
  OrElse(IF "data" \in DOMAIN r /\ "output" \in DOMAIN r.data
           THEN r.data.output ELSE <<>>,
         OrElse(IF "data" \in DOMAIN r /\ "stdout" \in DOMAIN r.data
                  THEN r.data.stdout ELSE <<>>,
                <<>>))

\* the value a parser returns is kept abstract: it records the text parsed
Parsed(output) == [parsedFrom |-> output]

ParseSuccessResult(r) ==
  [success |-> TRUE,
   message |-> <<"C","o","m","m","a","n","d"," ","e","x","e","c","u","t","e","d"," ","a","n","d"," ","p","a","r","s","e","d"," ","s","u","c","c","e","s","s","f","u","l","l","y">>,
   data |-> Parsed(ParserInput(r))]

ParseFailureResult(r, e) ==
  [success |-> FALSE,
   message |-> <<"F","a","i","l","e","d"," ","t","o"," ","p","a","r","s","e"," ","c","o","m","m","a","n","d"," ","o","u","t","p","u","t">>,
   errorCode |-> "PARSE_ERROR",
   details |-> e.message,
   data |-> r.data]

(* ----------------------------- actions --------------------------------- *)
\* a caller enters one of the three exported functions
Call(i) ==
  /\ pc[i] = "idle"
  /\ \E f \in EntryPoints :
       /\ entry' = [entry EXCEPT ![i] = f]
       /\ timeout' = [timeout EXCEPT ![i] =
                         IF f = "executeDestructiveCommand"
                           THEN DESTRUCTIVE_TIMEOUT ELSE DEFAULT_TIMEOUT]
  /\ pc' = [pc EXCEPT ![i] = "probe"]
  /\ UNCHANGED <<scriptPath, stdout, stderr, error, result, final, fs,
                 trace, ran>>
  /\ UNCHANGED <<ipcVars, pureVars, rendererVars>>

\* executeDiskpartCommand hands its result back; executeAndParse goes on
Return(i, r, events) ==
  /\ result' = [result EXCEPT ![i] = r]
  /\ trace' = [trace EXCEPT ![i] = @ \o events \o <<"return">>]
  /\ IF entry[i] = "executeAndParse"
       THEN /\ pc' = [pc EXCEPT ![i] = "parse"]
            /\ UNCHANGED final
       ELSE /\ pc' = [pc EXCEPT ![i] = "done"]
            /\ final' = [final EXCEPT ![i] = r]

\* await isRunningAsAdmin(), then the privilege branch
PrivilegeCheck(i) ==
  /\ pc[i] = "probe"
  /\ \E isAdmin \in BOOLEAN :
       LET probed == IF isAdmin THEN "elevated" ELSE "notElevated" IN
       IF PassesPrivilegeCheck(isAdmin)
         THEN /\ pc' = [pc EXCEPT ![i] = "create"]
              /\ trace' = [trace EXCEPT ![i] = Append(@, probed)]
              /\ UNCHANGED <<result, final>>
         ELSE Return(i, PrivilegeResult, <<probed>>)
  /\ UNCHANGED <<entry, timeout, scriptPath, stdout, stderr, error, fs, ran>>
  /\ UNCHANGED <<ipcVars, pureVars, rendererVars>>

\* createTempScript: name the file from the clock and a random suffix, write
CreateTempScript(i) ==
  /\ pc[i] = "create"
  /\ \E ms \in 0..MaxClock, suffix \in RandomSuffixes, wrote \in BOOLEAN, created \in BOOLEAN :
       LET path == <<ms, suffix>> IN
       IF wrote
         THEN /\ created
              /\ fs' = [fs EXCEPT ![path] = i]
              /\ scriptPath' = [scriptPath EXCEPT ![i] = path]
              /\ trace' = [trace EXCEPT ![i] = Append(@, "write")]
              /\ pc' = [pc EXCEPT ![i] = "invoke"]
              /\ UNCHANGED error
         ELSE \* writeFile rejected, having opened the file or not
              /\ fs' = IF created THEN [fs EXCEPT ![path] = i] ELSE fs
              /\ error' = [error EXCEPT ![i] =
                   CommandExecutionError(<<"F","a","i","l","e","d"," ","t","o"," ","c","r","e","a","t","e"," ","t","e","m","p","o","r","a","r","y"," ","s","c","r","i","p","t"," ","f","i","l","e">>,
                                         WriteFailure)]
              /\ trace' = [trace EXCEPT ![i] = Append(@, "writeFailed")]
              /\ pc' = [pc EXCEPT ![i] = Handler("create")]
              /\ UNCHANGED scriptPath
  /\ UNCHANGED <<entry, timeout, stdout, stderr, result, final, ran>>
  /\ UNCHANGED <<ipcVars, pureVars, rendererVars>>

\* execAsync(`diskpart /s "${scriptPath}"`, {timeout, ...})
Invoke(i) ==
  /\ pc[i] = "invoke"
  /\ trace' = [trace EXCEPT ![i] = Append(@, "spawn")]
  /\ ran' = [ran EXCEPT ![i] = fs[scriptPath[i]]]
  /\ \/ \E o \in Outputs :
          /\ stdout' = [stdout EXCEPT ![i] = o.stdout]
          /\ stderr' = [stderr EXCEPT ![i] = o.stderr]
          /\ pc' = [pc EXCEPT ![i] = "cleanup"]
          /\ UNCHANGED error
     \/ \E e \in ExecErrors :
          /\ error' = [error EXCEPT ![i] = e]
          /\ pc' = [pc EXCEPT ![i] = Handler("invoke")]
          /\ UNCHANGED <<stdout, stderr>>
  /\ UNCHANGED <<entry, timeout, scriptPath, result, final, fs>>
  /\ UNCHANGED <<ipcVars, pureVars, rendererVars>>

\* deleteTempScript: unlink if the path exists; a failed unlink is logged
DeleteTempScript(i) ==
  /\ pc[i] \in {"cleanup", "cleanupErr"}
  /\ IF fs[scriptPath[i]] # 0
       THEN \E unlinked \in BOOLEAN :
              /\ fs' = IF unlinked THEN [fs EXCEPT ![scriptPath[i]] = 0] ELSE fs
              /\ trace' = [trace EXCEPT ![i] =
                             Append(@, IF unlinked THEN "unlink" ELSE "unlinkFailed")]
       ELSE /\ fs' = fs
            /\ trace' = [trace EXCEPT ![i] = Append(@, "absent")]
  /\ pc' = [pc EXCEPT ![i] = AfterCleanup(pc[i])]
  /\ UNCHANGED <<entry, timeout, scriptPath, stdout, stderr, error, result,
                 final, ran>>
  /\ UNCHANGED <<ipcVars, pureVars, rendererVars>>

\* classification of the captured output and return
Classify(i) ==
  /\ pc[i] = "classify"
  /\ Return(i, ClassifyResult(stdout[i], stderr[i]), <<>>)
  /\ UNCHANGED <<entry, timeout, scriptPath, stdout, stderr, error, fs, ran>>
  /\ UNCHANGED <<ipcVars, pureVars, rendererVars>>

\* the outer catch block and return
Catch(i) ==
  /\ pc[i] = "catch"
  /\ Return(i, MapError(error[i], timeout[i]), <<>>)
  /\ UNCHANGED <<entry, timeout, scriptPath, stdout, stderr, error, fs, ran>>
  /\ UNCHANGED <<ipcVars, pureVars, rendererVars>>

\* executeAndParse after executeDiskpartCommand has returned
AndParse(i) ==
  /\ pc[i] = "parse"
  /\ IF ~ShouldParse(result[i])
       THEN /\ final' = [final EXCEPT ![i] = result[i]]
            /\ pc' = [pc EXCEPT ![i] = "done"]
            /\ UNCHANGED trace
       ELSE /\ trace' = [trace EXCEPT ![i] = Append(@, "parser")]
            /\ \E raises \in BOOLEAN :
                 IF ~raises
                   THEN /\ final' = [final EXCEPT ![i] = ParseSuccessResult(result[i])]
                        /\ pc' = [pc EXCEPT ![i] = "done"]
                   ELSE IF Handler("parser") = "parseCatch"
                     THEN /\ final' = [final EXCEPT ![i] =
                               ParseFailureResult(result[i], ParseError(ParserFailure))]
                          /\ pc' = [pc EXCEPT ![i] = "done"]
                     ELSE /\ pc' = [pc EXCEPT ![i] = "threw"]
                          /\ UNCHANGED final
  /\ UNCHANGED <<entry, timeout, scriptPath, stdout, stderr, error, result, fs, ran>>
  /\ UNCHANGED <<ipcVars, pureVars, rendererVars>>

Next ==
  \E i \in Invocations :
       \/ Call(i)
       \/ PrivilegeCheck(i)
       \/ CreateTempScript(i)
       \/ Invoke(i)
       \/ DeleteTempScript(i)
       \/ Classify(i)
       \/ Catch(i)
       \/ AndParse(i)

Spec == Init /\ [][Next]_vars

(* ------------------------------ claims --------------------------------- *)
\* executeDiskpartCommand has returned to its caller or to executeAndParse
Returned(i) == "success" \in DOMAIN result[i]

\* the entry point has returned to the caller
Finished(i) == pc[i] = "done"

Occurrences(tr, events) == Cardinality({k \in 1..Len(tr) : tr[k] \in events})

Position(tr, events) == CHOOSE k \in 1..Len(tr) : tr[k] \in events

WriteEvents == {"write", "writeFailed"}
DeleteEvents == {"unlink", "unlinkFailed", "absent"}

\* the envelope {success, message, errorCode?, details?, data?}
IsCommandResult(r) ==
  /\ {"success", "message"} \subseteq DOMAIN r
  /\ DOMAIN r \subseteq {"success", "message", "errorCode", "details", "data"}
  /\ r.success \in BOOLEAN

\* the subprocess of invocation i ran and exited normally
ExitedNormally(i) ==
  /\ Occurrences(trace[i], {"spawn"}) > 0
  /\ pc[i] \notin {"invoke", "cleanupErr", "catch"}
  /\ error[i] = NoError

\* C1: when the elevation probe returns false, the call returns success=false
\* with errorCode PRIVILEGE_ERROR (through all three entry points), having
\* written no temp script and invoked no diskpart subprocess.
C1_NotElevatedReturnsPrivilegeError ==
  \A i \in Invocations :
    (trace[i] # <<>> /\ trace[i][1] = "notElevated") =>
      /\ trace[i] = <<"notElevated", "return">>
      /\ Returned(i)
      /\ result[i].success = FALSE
      /\ result[i].errorCode = "PRIVILEGE_ERROR"
      /\ scriptPath[i] = NoPath
      /\ \A p \in Paths : fs[p] # i
      /\ Finished(i) => final[i] = result[i]

C1_Witness ==
  \E i \in Invocations :
    /\ Finished(i)
    /\ entry[i] = "executeAndParse"
    /\ trace[i][1] = "notElevated"
    /\ final[i].errorCode = "PRIVILEGE_ERROR"

\* C2 as stated: whenever executeDiskpartCommand returns after it wrote its
\* temp script, the file it wrote does not exist, even when the delete failed.
C2_NoTempFileAtReturn ==
  [][\A i \in Invocations :
       (~Returned(i) /\ Returned(i)' /\ scriptPath[i] # NoPath) =>
         fs'[scriptPath[i]] # i]_vars

\* C2 amended: whenever executeDiskpartCommand returns after it wrote its temp
\* script, deleteTempScript has run exactly once since the subprocess ended,
\* and the file the call wrote exists only if that delete attempt failed.
C2_NoTempFileAtReturnUnlessDeleteFailed ==
  [][\A i \in Invocations :
       (~Returned(i) /\ Returned(i)' /\ scriptPath[i] # NoPath) =>
         /\ Occurrences(trace'[i], DeleteEvents) = 1
         /\ Occurrences(trace'[i], {"spawn"}) = 1
         /\ Position(trace'[i], {"spawn"}) < Position(trace'[i], DeleteEvents)
         /\ fs'[scriptPath[i]] = i => Occurrences(trace'[i], {"unlinkFailed"}) = 1]_vars

C2_Witness ==
  \E i \in Invocations :
    /\ Returned(i)
    /\ ~result[i].success
    /\ result[i].errorCode = "COMMAND_TIMEOUT"
    /\ Occurrences(trace[i], {"unlink"}) = 1
    /\ fs[scriptPath[i]] = 0

\* C3: executeDiskpartCommand and executeAndParse end by returning a
\* CommandResult; no exception of the write, the subprocess, the cleanup or
\* the parser leaves the function.
C3_AlwaysReturnsCommandResult ==
  \A i \in Invocations :
    /\ pc[i] # "threw"
    /\ pc[i] \in {"idle", "probe", "create", "invoke", "cleanup", "cleanupErr",
                  "classify", "catch", "parse", "done"}
    /\ Returned(i) => IsCommandResult(result[i])
    /\ Finished(i) => IsCommandResult(final[i])
    /\ pc[i] \in {"parse", "done"} => Returned(i)

C3_Witness ==
  \E i \in Invocations :
    /\ Finished(i)
    /\ Occurrences(trace[i], {"parser"}) = 1
    /\ final[i].success = FALSE
    /\ IsCommandResult(final[i])

\* C4: a failed subprocess invocation is reported as exactly one kind, in this
\* order: killed or SIGTERM gives COMMAND_TIMEOUT naming the timeout of the
\* call; else "access is denied" in the message (any case) gives ACCESS_DENIED;
\* else COMMAND_EXECUTION_ERROR with the raw message in details.
C4_ErrorKindOrder ==
  \A i \in Invocations :
    (Returned(i) /\ error[i] \in ExecErrors) =>
      LET e == error[i]
          r == result[i]
      IN  /\ r.success = FALSE
          /\ IF e.killed \/ e.signal = "SIGTERM"
               THEN /\ r.errorCode = "COMMAND_TIMEOUT"
                    /\ Includes(r.details, NumberToString(timeout[i]) \o <<"m","s">>)
                    /\ Includes(r.message, NumberToString(timeout[i]) \o <<"m","s">>)
               ELSE IF Includes(ToLowerCase(e.message), <<"a","c","c","e","s","s"," ","i","s"," ","d","e","n","i","e","d">>)
                 THEN r.errorCode = "ACCESS_DENIED"
                 ELSE /\ r.errorCode = "COMMAND_EXECUTION_ERROR"
                      /\ r.details = e.message

C4_Witness ==
  \E i \in Invocations :
    /\ Returned(i)
    /\ error[i] \in ExecErrors
    /\ ~error[i].killed
    /\ error[i].signal = "SIGTERM"
    /\ Includes(ToLowerCase(error[i].message), <<"a","c","c","e","s","s"," ","i","s"," ","d","e","n","i","e","d">>)
    /\ result[i].errorCode = "COMMAND_TIMEOUT"
    /\ timeout[i] = DESTRUCTIVE_TIMEOUT

\* C5: every result with success=false that an entry point returns carries an
\* errorCode of the closed Error Taxonomy.
C5_FailureCodesInTaxonomy ==
  \A i \in Invocations :
    /\ (Returned(i) /\ ~result[i].success) =>
         ("errorCode" \in DOMAIN result[i] /\ result[i].errorCode \in ErrorTaxonomy)
    /\ (Finished(i) /\ ~final[i].success) =>
         ("errorCode" \in DOMAIN final[i] /\ final[i].errorCode \in ErrorTaxonomy)

HasNegativeMarker(text) ==
  \E k \in 1..Len(NegativeMarkers) : Includes(ToLowerCase(text), NegativeMarkers[k])

\* C6: after a normal exit, a negative marker anywhere in the captured stdout
\* or stderr makes the result success=false; with no marker the result is
\* success exactly when the output is not blank.
C6_NegativeMarkerMeansFailure ==
  \A i \in Invocations :
    (Returned(i) /\ ExitedNormally(i)) =>
      IF HasNegativeMarker(stdout[i]) \/ HasNegativeMarker(stderr[i])
        THEN result[i].success = FALSE
        ELSE result[i].success = (Trim(stdout[i] \o stderr[i]) # <<>>)

Rank(event) ==
  CASE event \in {"elevated", "notElevated"} -> 1
    [] event \in WriteEvents -> 2
    [] event = "spawn" -> 3
    [] event \in DeleteEvents -> 4
    [] event = "return" -> 5
    [] event = "parser" -> 6

\* C7: within one call the steps run in the order privilege check, temp script
\* write, subprocess, delete, return; the subprocess runs at most once and not
\* at all after a failed write, which returns COMMAND_EXECUTION_ERROR.
C7_StrictStepOrder ==
  \A i \in Invocations :
    LET tr == trace[i] IN
      /\ \A k \in 1..(Len(tr) - 1) : Rank(tr[k]) < Rank(tr[k + 1])
      /\ Occurrences(tr, {"spawn"}) <= 1
      /\ Occurrences(tr, {"spawn"}) = 1 =>
           /\ tr[1] = "elevated"
           /\ Occurrences(tr, {"write"}) = 1
      /\ Occurrences(tr, WriteEvents) = 1 => tr[1] = "elevated"
      /\ (Returned(i) /\ Occurrences(tr, {"spawn"}) = 1) =>
           Occurrences(tr, DeleteEvents) = 1
      /\ Returned(i) = (Occurrences(tr, {"return"}) = 1)
      /\ Occurrences(tr, {"writeFailed"}) = 1 =>
           /\ Occurrences(tr, {"spawn"}) = 0
           /\ Returned(i) =>
                /\ result[i].success = FALSE
                /\ result[i].errorCode = "COMMAND_EXECUTION_ERROR"

C7_Witness ==
  \E i \in Invocations :
    /\ Returned(i)
    /\ trace[i] = <<"elevated", "writeFailed", "return">>
    /\ result[i].errorCode = "COMMAND_EXECUTION_ERROR"

\* C8: executeAndParse calls the parser exactly once when the execution result
\* has success=true and never otherwise; a failed execution result is returned
\* unchanged.
C8_ParserOnlyOnSuccess ==
  \A i \in Invocations :
    /\ Occurrences(trace[i], {"parser"}) <= 1
    /\ (Finished(i) /\ entry[i] = "executeAndParse") =>
         /\ Occurrences(trace[i], {"parser"}) = IF result[i].success THEN 1 ELSE 0
         /\ ~result[i].success => final[i] = result[i]
    /\ entry[i] # "executeAndParse" => Occurrences(trace[i], {"parser"}) = 0

C8_Witness ==
  \E i \in Invocations :
    /\ Finished(i)
    /\ entry[i] = "executeAndParse"
    /\ Occurrences(trace[i], {"spawn"}) = 1
    /\ ~result[i].success
    /\ final[i] = result[i]
    /\ Occurrences(trace[i], {"parser"}) = 0

\* the parser was called by invocation i and raised
ParserRaised(i) ==
  /\ Finished(i)
  /\ Occurrences(trace[i], {"parser"}) = 1
  /\ ~final[i].success

\* C9: when the parser raises after a successful execution, executeAndParse
\* returns success=false with errorCode PARSE_ERROR and the raw captured
\* output text in the details field.
C9_ParseErrorKeepsRawTextInDetails ==
  \A i \in Invocations :
    ParserRaised(i) =>
      /\ final[i].errorCode = "PARSE_ERROR"
      /\ final[i].details = ParserInput(result[i])

\* invocation i holds a temp script path and has not returned yet
HoldsScript(i) == scriptPath[i] # NoPath /\ ~Returned(i)

\* C10: two invocations in flight at the same time have different temp script
\* paths, so none runs or deletes the script of the other.
C10_DistinctTempPaths ==
  \A i, j \in Invocations :
    i # j =>
      /\ (HoldsScript(i) /\ HoldsScript(j)) => scriptPath[i] # scriptPath[j]
      /\ Occurrences(trace[i], {"spawn"}) = 1 => ran[i] # j

(* ======================================================================= *)
(* Script builders (src/main/diskpart/commands.ts)                         *)
(* ======================================================================= *)
\* A number argument is kept as a count of halves, so that 3 halves is the
\* non-integer 1.5; an argument left out is Undefined; an optional string is
\* Str(text) or Undefined.
Num(halves) == [halves |-> halves]
Undefined == [undefined |-> TRUE]
Str(text) == [str |-> text]

\* Number.isInteger
IsInteger(x) == x.halves % 2 = 0

\* `${x}` of a number
NumberText(x) ==
  LET h == IF x.halves < 0 THEN -x.halves ELSE x.halves
  IN  (IF x.halves < 0 THEN <<"-">> ELSE <<>>) \o NumberToString(h \div 2)
        \o (IF h % 2 = 1 THEN <<".","5">> ELSE <<>>)

\* the two letters outside a-z whose upper case is an ASCII letter:
\* U+0131 (dotless i) and U+017F (long s), each one character of a text
DotlessI == "U+0131"
LongS == "U+017F"

UpperChar(c) ==
  IF \E k \in 1..26 : Lower[k] = c
    THEN Upper[CHOOSE k \in 1..26 : Lower[k] = c]
  ELSE IF c = DotlessI THEN "I"
  ELSE IF c = LongS THEN "S"
  ELSE c

\* String.prototype.toUpperCase
ToUpperCase(s) == [k \in 1..Len(s) |-> UpperChar(s[k])]

\* Array.prototype.join
RECURSIVE Join(_, _)
Join(list, sep) ==
  IF list = <<>> THEN <<>>
  ELSE IF Len(list) = 1 THEN list[1]
  ELSE list[1] \o sep \o Join(Tail(list), sep)

\* what a builder hands back: the instruction text, or the error it raised
Returns(text) == [text |-> text]
InvalidCommandError(message) ==
  [threw |-> "InvalidCommandError", code |-> "INVALID_COMMAND", message |-> message]
Raised(r) == "threw" \in DOMAIN r

buildListDisksCommand == Returns(<<"l","i","s","t"," ","d","i","s","k">>)
buildListVolumesCommand == Returns(<<"l","i","s","t"," ","v","o","l","u","m","e">>)
buildListPartitionsCommand == Returns(<<"l","i","s","t"," ","p","a","r","t","i","t","i","o","n">>)

buildSelectDiskCommand(diskNumber) ==
  IF ~IsInteger(diskNumber) \/ diskNumber.halves < 0
    THEN InvalidCommandError(<<"I","n","v","a","l","i","d"," ","d","i","s","k"," ","n","u","m","b","e","r",":"," ">> \o NumberText(diskNumber))
    ELSE Returns(<<"s","e","l","e","c","t"," ","d","i","s","k"," ">> \o NumberText(diskNumber))

buildDetailDiskCommand == Returns(<<"d","e","t","a","i","l"," ","d","i","s","k">>)

buildSelectPartitionCommand(partitionNumber) ==
  IF ~IsInteger(partitionNumber) \/ partitionNumber.halves < 2
    THEN InvalidCommandError(<<"I","n","v","a","l","i","d"," ","p","a","r","t","i","t","i","o","n"," ","n","u","m","b","e","r",":"," ">> \o NumberText(partitionNumber))
    ELSE Returns(<<"s","e","l","e","c","t"," ","p","a","r","t","i","t","i","o","n"," ">> \o NumberText(partitionNumber))

buildCleanDiskCommand == Returns(<<"c","l","e","a","n">>)
buildCleanAllCommand == Returns(<<"c","l","e","a","n"," ","a","l","l">>)

buildCreatePartitionCommand(size) ==
  IF size # Undefined
    THEN IF ~IsInteger(size) \/ size.halves <= 0
           THEN InvalidCommandError(<<"I","n","v","a","l","i","d"," ","p","a","r","t","i","t","i","o","n"," ","s","i","z","e",":"," ">> \o NumberText(size))
           ELSE Returns(<<"c","r","e","a","t","e"," ","p","a","r","t","i","t","i","o","n"," ","p","r","i","m","a","r","y"," ","s","i","z","e","=">> \o NumberText(size))
    ELSE Returns(<<"c","r","e","a","t","e"," ","p","a","r","t","i","t","i","o","n"," ","p","r","i","m","a","r","y">>)

buildDeletePartitionCommand == Returns(<<"d","e","l","e","t","e"," ","p","a","r","t","i","t","i","o","n">>)

\* const validFileSystems = ['NTFS', 'FAT32', 'exFAT', 'FAT']
validFileSystems == <<<<"N","T","F","S">>, <<"F","A","T","3","2">>, <<"e","x","F","A","T">>, <<"F","A","T">>>>

\* Array.prototype.includes
ListIncludes(list, x) == \E k \in 1..Len(list) : list[k] = x

\* const maxLength = fsUpper === 'NTFS' ? 32 : 11
maxLength(fsUpper) == IF fsUpper = <<"N","T","F","S">> THEN 32 ELSE 11

\* if (label): a label left out or empty is no label
Truthy(label) == label # Undefined /\ label.str # <<>>

buildFormatVolumeCommand(fileSystem, label, quick) ==
  LET fsUpper == ToUpperCase(fileSystem) IN
  IF ~ListIncludes(validFileSystems, fsUpper)
    THEN InvalidCommandError(<<"I","n","v","a","l","i","d"," ","f","i","l","e"," ","s","y","s","t","e","m",":"," ">> \o fileSystem
           \o <<"."," ","M","u","s","t"," ","b","e"," ","o","n","e"," ","o","f",":"," ">> \o Join(validFileSystems, <<","," ">>))
  ELSE IF Truthy(label) /\ Len(label.str) > maxLength(fsUpper)
    THEN InvalidCommandError(<<"L","a","b","e","l"," ","t","o","o"," ","l","o","n","g",":"," ">> \o NumberToString(Len(label.str))
           \o <<" ","c","h","a","r","a","c","t","e","r","s"," ","(","m","a","x"," ">> \o NumberToString(maxLength(fsUpper))
           \o <<" ","f","o","r"," ">> \o fsUpper \o <<")">>)
  ELSE Returns(<<"f","o","r","m","a","t"," ","f","s","=">> \o fsUpper
         \o (IF Truthy(label) THEN <<" ","l","a","b","e","l","=","\"">> \o label.str \o <<"\"">> ELSE <<>>)
         \o (IF quick THEN <<" ","q","u","i","c","k">> ELSE <<>>))

\* /^[A-Z]$/.test(upperLetter)
IsDriveLetter(upperLetter) ==
  Len(upperLetter) = 1 /\ \E k \in 1..26 : Upper[k] = upperLetter[1]

buildAssignLetterCommand(letter) ==
  LET upperLetter == ToUpperCase(letter) IN
  IF ~IsDriveLetter(upperLetter)
    THEN InvalidCommandError(<<"I","n","v","a","l","i","d"," ","d","r","i","v","e"," ","l","e","t","t","e","r",":"," ">> \o letter \o <<"."," ","M","u","s","t"," ","b","e"," ","A","-","Z">>)
    ELSE Returns(<<"a","s","s","i","g","n"," ","l","e","t","t","e","r","=">> \o upperLetter)

buildRemoveLetterCommand(letter) ==
  LET upperLetter == ToUpperCase(letter) IN
  IF ~IsDriveLetter(upperLetter)
    THEN InvalidCommandError(<<"I","n","v","a","l","i","d"," ","d","r","i","v","e"," ","l","e","t","t","e","r",":"," ">> \o letter \o <<"."," ","M","u","s","t"," ","b","e"," ","A","-","Z">>)
    ELSE Returns(<<"r","e","m","o","v","e"," ","l","e","t","t","e","r","=">> \o upperLetter)

buildSetActiveCommand == Returns(<<"a","c","t","i","v","e">>)

buildExtendPartitionCommand(size) ==
  IF size # Undefined
    THEN IF ~IsInteger(size) \/ size.halves <= 0
           THEN InvalidCommandError(<<"I","n","v","a","l","i","d"," ","e","x","t","e","n","d"," ","s","i","z","e",":"," ">> \o NumberText(size))
           ELSE Returns(<<"e","x","t","e","n","d"," ","s","i","z","e","=">> \o NumberText(size))
    ELSE Returns(<<"e","x","t","e","n","d">>)

buildShrinkPartitionCommand(desired, minimum) ==
  IF ~IsInteger(desired) \/ desired.halves <= 0
    THEN InvalidCommandError(<<"I","n","v","a","l","i","d"," ","s","h","r","i","n","k"," ","s","i","z","e",":"," ">> \o NumberText(desired))
  ELSE IF minimum # Undefined /\ (~IsInteger(minimum) \/ minimum.halves <= 0)
    THEN InvalidCommandError(<<"I","n","v","a","l","i","d"," ","m","i","n","i","m","u","m"," ","s","h","r","i","n","k"," ","s","i","z","e",":"," ">> \o NumberText(minimum))
  ELSE Returns(<<"s","h","r","i","n","k"," ","d","e","s","i","r","e","d","=">> \o NumberText(desired)
         \o (IF minimum # Undefined
               THEN <<" ","m","i","n","i","m","u","m","=">> \o NumberText(minimum) ELSE <<>>))

\* an array literal of builder calls, evaluated left to right: the first
\* call that raises ends the evaluation
FirstRaised(built) ==
  built[CHOOSE k \in 1..Len(built) :
          Raised(built[k]) /\ \A j \in 1..(k - 1) : ~Raised(built[j])]

\* the instructions joined last to first
buildCommandScript_Reversed(commands) ==
  IF commands = <<>>
    THEN InvalidCommandError(<<"N","o"," ","c","o","m","m","a","n","d","s"," ","p","r","o","v","i","d","e","d">>)
    ELSE Returns(Join([k \in 1..Len(commands) |-> commands[Len(commands) + 1 - k]],
                      <<"\n">>))

buildCommandScript(commands) ==
  IF commands = <<>>
    THEN InvalidCommandError(<<"N","o"," ","c","o","m","m","a","n","d","s"," ","p","r","o","v","i","d","e","d">>)
    ELSE Returns(Join(commands, <<"\n">>))

\* buildCommandScript([...]) on an array literal of builder calls
ScriptOf(built) ==
  IF \E k \in 1..Len(built) : Raised(built[k])
    THEN FirstRaised(built)
    ELSE buildCommandScript([k \in 1..Len(built) |-> built[k].text])

buildDetailDiskScript(diskNumber) ==
  ScriptOf(<<buildSelectDiskCommand(diskNumber), buildDetailDiskCommand,
             buildListPartitionsCommand>>)

buildFormatPartitionScript(diskNumber, partitionNumber, fileSystem, label) ==
  ScriptOf(<<buildSelectDiskCommand(diskNumber),
             buildSelectPartitionCommand(partitionNumber),
             buildFormatVolumeCommand(fileSystem, label, TRUE)>>)

(* ======================================================================= *)
(* IPC handlers of the main process (src/main/main.ts)                     *)
(* ======================================================================= *)
Channels ==
  {"list-disks", "list-volumes", "list-partitions", "select-disk",
   "detail-disk", "clean-disk", "clean-all", "create-partition",
   "delete-partition", "format-volume", "assign-letter", "remove-letter"}

\* the parameters each channel takes from the renderer
TakesDisk(channel) == channel \notin {"list-disks", "list-volumes"}
TakesPartition(channel) ==
  channel \in {"delete-partition", "format-volume", "assign-letter", "remove-letter"}
TakesSize(channel) == channel = "create-partition"
TakesFormat(channel) == channel = "format-volume"
TakesLetter(channel) == channel \in {"assign-letter", "remove-letter"}

\* arguments the renderer may send: -1, 0, 1 and 1.5 for a disk; 0, 1 and
\* 2.5 for a partition; no size, 0 and 500
DiskIds == {Num(-2), Num(0), Num(2), Num(3)}
PartitionIds == {Num(0), Num(2), Num(5)}
Sizes == {Undefined, Num(0), Num(1000)}
FileSystems == {<<"n","t","f","s">>, <<"F","A","T","3","2">>, <<"e","x","t","4">>}
Labels == {Undefined, Str(<<"D","a","t","a">>), Str(<<"B","a","c","k","u","p","D","r","i","v","e","2">>), Str(<<"a","\n","b">>)}
Letters == {<<"e">>, <<"E","F">>, <<"1">>}

\* a parameter the channel does not take is left out of the request
Requests ==
  { r \in [channel : Channels, diskId : DiskIds \cup {Undefined},
           partitionId : PartitionIds \cup {Undefined}, size : Sizes,
           fileSystem : FileSystems \cup {<<>>}, label : Labels,
           letter : Letters \cup {<<>>}] :
      /\ (r.diskId # Undefined) = TakesDisk(r.channel)
      /\ (r.partitionId # Undefined) = TakesPartition(r.channel)
      /\ ~TakesSize(r.channel) => r.size = Undefined
      /\ (r.fileSystem # <<>>) = TakesFormat(r.channel)
      /\ ~TakesFormat(r.channel) => r.label = Undefined
      /\ (r.letter # <<>>) = TakesLetter(r.channel) }

\* the script each handler builds inside its try block
HandlerScript(r) ==
  CASE r.channel = "list-disks" -> buildListDisksCommand
    [] r.channel = "list-volumes" -> buildListVolumesCommand
    [] r.channel = "list-partitions" ->
         ScriptOf(<<buildSelectDiskCommand(r.diskId), buildListPartitionsCommand>>)
    [] r.channel = "select-disk" -> buildSelectDiskCommand(r.diskId)
    [] r.channel = "detail-disk" -> buildDetailDiskScript(r.diskId)
    [] r.channel = "clean-disk" ->
         ScriptOf(<<buildSelectDiskCommand(r.diskId), buildCleanDiskCommand>>)
    [] r.channel = "clean-all" ->
         ScriptOf(<<buildSelectDiskCommand(r.diskId), buildCleanAllCommand>>)
    [] r.channel = "create-partition" ->
         ScriptOf(<<buildSelectDiskCommand(r.diskId),
                    buildCreatePartitionCommand(r.size)>>)
    [] r.channel = "delete-partition" ->
         ScriptOf(<<buildSelectDiskCommand(r.diskId),
                    buildSelectPartitionCommand(r.partitionId),
                    buildDeletePartitionCommand>>)
    [] r.channel = "format-volume" ->
         buildFormatPartitionScript(r.diskId, r.partitionId, r.fileSystem, r.label)
    [] r.channel = "assign-letter" ->
         ScriptOf(<<buildSelectDiskCommand(r.diskId),
                    buildSelectPartitionCommand(r.partitionId),
                    buildAssignLetterCommand(r.letter)>>)
    [] r.channel = "remove-letter" ->
         ScriptOf(<<buildSelectDiskCommand(r.diskId),
                    buildSelectPartitionCommand(r.partitionId),
                    buildRemoveLetterCommand(r.letter)>>)

\* the executor function each handler awaits
HandlerEntry(channel) ==
  IF channel \in {"list-disks", "list-volumes", "list-partitions", "detail-disk"}
    THEN "executeAndParse"
  ELSE IF channel \in {"clean-disk", "clean-all", "delete-partition", "format-volume"}
    THEN "executeDestructiveCommand"
  ELSE "executeDiskpartCommand"

\* the executor call placed before the builders
ReachesExecutor_Always(script) == TRUE

\* the builders run first, inside the try block: the await of the executor
\* is reached only when none of them raised
ReachesExecutor(script) == ~Raised(script)

\* error.message || '<fallback>' in the catch block of a handler
Fallback(channel) ==
  CASE channel = "list-disks" -> <<"F","a","i","l","e","d"," ","t","o"," ","l","i","s","t"," ","d","i","s","k","s">>
    [] channel = "list-volumes" -> <<"F","a","i","l","e","d"," ","t","o"," ","l","i","s","t"," ","v","o","l","u","m","e","s">>
    [] channel = "list-partitions" -> <<"F","a","i","l","e","d"," ","t","o"," ","l","i","s","t"," ","p","a","r","t","i","t","i","o","n","s">>
    [] channel = "select-disk" -> <<"F","a","i","l","e","d"," ","t","o"," ","s","e","l","e","c","t"," ","d","i","s","k">>
    [] channel = "detail-disk" -> <<"F","a","i","l","e","d"," ","t","o"," ","g","e","t"," ","d","i","s","k"," ","d","e","t","a","i","l","s">>
    [] channel \in {"clean-disk", "clean-all"} -> <<"F","a","i","l","e","d"," ","t","o"," ","c","l","e","a","n"," ","d","i","s","k">>
    [] channel = "create-partition" -> <<"F","a","i","l","e","d"," ","t","o"," ","c","r","e","a","t","e"," ","p","a","r","t","i","t","i","o","n">>
    [] channel = "delete-partition" -> <<"F","a","i","l","e","d"," ","t","o"," ","d","e","l","e","t","e"," ","p","a","r","t","i","t","i","o","n">>
    [] channel = "format-volume" -> <<"F","a","i","l","e","d"," ","t","o"," ","f","o","r","m","a","t"," ","v","o","l","u","m","e">>
    [] channel = "assign-letter" -> <<"F","a","i","l","e","d"," ","t","o"," ","a","s","s","i","g","n"," ","d","r","i","v","e"," ","l","e","t","t","e","r">>
    [] channel = "remove-letter" -> <<"F","a","i","l","e","d"," ","t","o"," ","r","e","m","o","v","e"," ","d","r","i","v","e"," ","l","e","t","t","e","r">>

\* the catch block of a handler; details is the first line of error.stack
ExceptionResponse(channel, e) ==
  [success |-> FALSE,
   error |-> [code |-> "EXCEPTION",
              message |-> OrElse(e.message, Fallback(channel)),
              details |-> <<"I","n","v","a","l","i","d","C","o","m","m","a","n","d","E","r","r","o","r",":"," ">> \o e.message]]

\* if (!result.success) return {success: false, error: {...}}
FailureResponse(r) ==
  [success |-> FALSE,
   error |-> [code |-> IF "errorCode" \in DOMAIN r /\ r.errorCode # ""
                         THEN r.errorCode ELSE "UNKNOWN_ERROR",
              message |-> r.message,
              details |-> IF "details" \in DOMAIN r THEN r.details ELSE <<>>]]

\* data of a success response: the parsed value, or a fixed message
SuccessData(req, r) ==
  CASE HandlerEntry(req.channel) = "executeAndParse" -> r.data
    [] req.channel = "select-disk" ->
         [message |-> <<"D","i","s","k"," ">> \o NumberText(req.diskId) \o <<" ","s","e","l","e","c","t","e","d"," ","s","u","c","c","e","s","s","f","u","l","l","y">>]
    [] req.channel = "clean-disk" ->
         [message |-> <<"D","i","s","k"," ">> \o NumberText(req.diskId) \o <<" ","c","l","e","a","n","e","d"," ","s","u","c","c","e","s","s","f","u","l","l","y">>]
    [] req.channel = "clean-all" ->
         [message |-> <<"D","i","s","k"," ">> \o NumberText(req.diskId) \o <<" ","c","l","e","a","n","e","d"," ","(","a","l","l",")"," ","s","u","c","c","e","s","s","f","u","l","l","y">>]
    [] req.channel = "create-partition" -> [message |-> <<"P","a","r","t","i","t","i","o","n"," ","c","r","e","a","t","e","d"," ","s","u","c","c","e","s","s","f","u","l","l","y">>]
    [] req.channel = "delete-partition" -> [message |-> <<"P","a","r","t","i","t","i","o","n"," ","d","e","l","e","t","e","d"," ","s","u","c","c","e","s","s","f","u","l","l","y">>]
    [] req.channel = "format-volume" -> [message |-> <<"V","o","l","u","m","e"," ","f","o","r","m","a","t","t","e","d"," ","s","u","c","c","e","s","s","f","u","l","l","y">>]
    [] req.channel = "assign-letter" ->
         [message |-> <<"D","r","i","v","e"," ","l","e","t","t","e","r"," ">> \o req.letter \o <<" ","a","s","s","i","g","n","e","d"," ","s","u","c","c","e","s","s","f","u","l","l","y">>]
    [] req.channel = "remove-letter" ->
         [message |-> <<"D","r","i","v","e"," ","l","e","t","t","e","r"," ">> \o req.letter \o <<" ","r","e","m","o","v","e","d"," ","s","u","c","c","e","s","s","f","u","l","l","y">>]

SuccessResponse(req, r) == [success |-> TRUE, data |-> SuccessData(req, r)]

\* the invocation of the executor that the handler awaits
Served == 1

\* a handler is invoked: it builds its script and calls the executor, or a
\* builder raises and the catch block answers
Handle ==
  /\ request = NoRequest
  /\ pc[Served] = "idle"
  /\ \E req \in Requests :
       LET script == HandlerScript(req) IN
       /\ request' = req
       /\ IF ReachesExecutor(script)
            THEN /\ command' = IF Raised(script) THEN <<>> ELSE script.text
                 /\ entry' = [entry EXCEPT ![Served] = HandlerEntry(req.channel)]
                 /\ timeout' = [timeout EXCEPT ![Served] =
                       IF HandlerEntry(req.channel) = "executeDestructiveCommand"
                         THEN DESTRUCTIVE_TIMEOUT ELSE DEFAULT_TIMEOUT]
                 /\ pc' = [pc EXCEPT ![Served] = "probe"]
                 /\ UNCHANGED response
            ELSE /\ response' = ExceptionResponse(req.channel, script)
                 /\ UNCHANGED <<command, entry, timeout, pc>>
  /\ UNCHANGED <<scriptPath, stdout, stderr, error, result, final, fs, trace, ran>>
  /\ UNCHANGED <<pureVars, rendererVars>>

\* the executor has returned: the handler answers the renderer
Respond ==
  /\ request # NoRequest
  /\ response = Pending
  /\ pc[Served] = "done"
  /\ response' = IF ~final[Served].success
                   THEN FailureResponse(final[Served])
                   ELSE SuccessResponse(request, final[Served])
  /\ UNCHANGED <<execVars, request, command, pureVars, rendererVars>>

NextIpc ==
  \/ Handle
  \/ PrivilegeCheck(Served)
  \/ CreateTempScript(Served)
  \/ Invoke(Served)
  \/ DeleteTempScript(Served)
  \/ Classify(Served)
  \/ Catch(Served)
  \/ AndParse(Served)
  \/ Respond

SpecIpc == Init /\ [][NextIpc]_vars

(* ----------------------- claims on the IPC handlers -------------------- *)
\* a parameter of the request is rejected by the builder it is passed to
ParameterFails(r) ==
  \/ TakesDisk(r.channel) /\ Raised(buildSelectDiskCommand(r.diskId))
  \/ TakesPartition(r.channel) /\ Raised(buildSelectPartitionCommand(r.partitionId))
  \/ TakesSize(r.channel) /\ Raised(buildCreatePartitionCommand(r.size))
  \/ TakesFormat(r.channel) /\ Raised(buildFormatVolumeCommand(r.fileSystem, r.label, TRUE))
  \/ r.channel = "assign-letter" /\ Raised(buildAssignLetterCommand(r.letter))
  \/ r.channel = "remove-letter" /\ Raised(buildRemoveLetterCommand(r.letter))

\* the executor has done nothing for the handler
ExecutorUntouched ==
  /\ pc[Served] = "idle"
  /\ trace[Served] = <<>>
  /\ \A p \in Paths : fs[p] = 0

\* C11: a handler whose request carries a parameter that a script builder
\* rejects has answered with a failure response, and the executor was never
\* entered for it: no elevation probe, no temp script, no subprocess.
C11_InvalidParameterFailsBeforeExecutor ==
  (request # NoRequest /\ ParameterFails(request)) =>
    /\ response # Pending
    /\ ~response.success
    /\ ExecutorUntouched

\* a format request with a label over the cap has been answered
C11_Witness ==
  /\ request # NoRequest
  /\ request.channel = "format-volume"
  /\ ~Raised(buildSelectDiskCommand(request.diskId))
  /\ ~Raised(buildSelectPartitionCommand(request.partitionId))
  /\ ParameterFails(request)
  /\ response # Pending
  /\ ~response.success
  /\ response.error.code = "EXCEPTION"

StartsWith(s, prefix) ==
  Len(s) >= Len(prefix) /\ SubSeq(s, 1, Len(prefix)) = prefix

DiskTargeted(channel) ==
  channel \in {"list-partitions", "detail-disk", "clean-disk", "clean-all",
               "create-partition"}

PartitionTargeted(channel) ==
  channel \in {"delete-partition", "format-volume", "assign-letter", "remove-letter"}

\* how the line that does the operation begins
OperationPrefix(channel) ==
  CASE channel = "list-partitions" -> <<"l","i","s","t"," ","p","a","r","t","i","t","i","o","n">>
    [] channel = "detail-disk" -> <<"d","e","t","a","i","l"," ","d","i","s","k">>
    [] channel = "clean-disk" -> <<"c","l","e","a","n">>
    [] channel = "clean-all" -> <<"c","l","e","a","n"," ","a","l","l">>
    [] channel = "create-partition" -> <<"c","r","e","a","t","e"," ","p","a","r","t","i","t","i","o","n"," ","p","r","i","m","a","r","y">>
    [] channel = "delete-partition" -> <<"d","e","l","e","t","e"," ","p","a","r","t","i","t","i","o","n">>
    [] channel = "format-volume" -> <<"f","o","r","m","a","t"," ","f","s","=">>
    [] channel = "assign-letter" -> <<"a","s","s","i","g","n"," ","l","e","t","t","e","r","=">>
    [] channel = "remove-letter" -> <<"r","e","m","o","v","e"," ","l","e","t","t","e","r","=">>

\* the handler has handed a script to the executor
Handed == request # NoRequest /\ pc[Served] # "idle"

\* C12: a script handed to the executor for a disk-targeted operation has
\* `select disk N` as its first line and the operation on the next; for a
\* partition-targeted operation the first line is `select disk N`, the
\* second `select partition M`, and the operation comes third.
C12_SelectLinesComeFirst ==
  Handed =>
    LET lines == SplitLines(command)
        ch == request.channel
    IN  /\ DiskTargeted(ch) =>
             /\ Len(lines) >= 2
             /\ lines[1] = <<"s","e","l","e","c","t"," ","d","i","s","k"," ">> \o NumberText(request.diskId)
             /\ StartsWith(lines[2], OperationPrefix(ch))
        /\ PartitionTargeted(ch) =>
             /\ Len(lines) >= 3
             /\ lines[1] = <<"s","e","l","e","c","t"," ","d","i","s","k"," ">> \o NumberText(request.diskId)
             /\ lines[2] = <<"s","e","l","e","c","t"," ","p","a","r","t","i","t","i","o","n"," ">> \o NumberText(request.partitionId)
             /\ StartsWith(lines[3], OperationPrefix(ch))

\* a format script has run and the handler has answered
C12_Witness ==
  /\ Handed
  /\ request.channel = "format-volume"
  /\ Len(SplitLines(command)) >= 3
  /\ "spawn" \in {trace[Served][k] : k \in 1..Len(trace[Served])}
  /\ response # Pending

(* ======================================================================= *)
(* The script builders applied to arguments                                *)
(* ======================================================================= *)
Numbers == {Num(h) : h \in (-2)..(2 * MaxNumber + 1)}

Repeat(c, n) == [k \in 1..n |-> c]

\* file-system arguments: the four supported names in several cases, names
\* that are not supported, and a name spelt with the long s
FsNames ==
  {<<"N","T","F","S">>, <<"n","t","f","s">>, <<"N","t","f","s">>, <<"F","A","T","3","2">>, <<"f","a","t","3","2">>, <<"F","A","T">>, <<"f","a","t">>,
   <<"e","x","F","A","T">>, <<"E","X","F","A","T">>, <<"e","x","f","a","t">>, <<"e","x","t","4">>, <<"F","A","T","1","6">>, <<>>,
   <<"n", "t", "f", LongS>>}

\* label arguments: none, empty, at and around the two caps, two lines
LabelArgs ==
  {Undefined, Str(<<>>), Str(<<"D","a","t","a">>), Str(<<"a","\n","b">>)}
    \cup {Str(Repeat("x", n)) : n \in {10, 11, 12, 31, 32, 33}}

LetterArgs ==
  {<<"A">>, <<"Z">>, <<"e">>, <<"z">>, <<>>, <<"E","F">>, <<"1">>, <<"@">>, <<"[">>, <<"E",":">>,
   <<DotlessI>>, <<LongS>>}

\* instructions that valid builder calls return
Instructions ==
  { buildSelectDiskCommand(Num(0)).text,
    buildSelectDiskCommand(Num(2)).text,
    buildSelectPartitionCommand(Num(2)).text,
    buildCleanDiskCommand.text,
    buildCreatePartitionCommand(Num(1000)).text,
    buildFormatVolumeCommand(<<"N","T","F","S">>, Str(<<"D","a","t","a">>), TRUE).text,
    buildFormatVolumeCommand(<<"N","T","F","S">>, Str(<<"a","\n","b">>), TRUE).text,
    buildAssignLetterCommand(<<"E">>).text }

CommandLists == UNION {[1..n -> Instructions] : n \in 0..MaxCommands}

\* one application: the function named in c is given the arguments in c and
\* hands back r
Applied(c, r) == call' = c /\ ret' = r

FixedInstruction ==
  /\ call = NoCall
  /\ \E f \in {"buildListDisksCommand", "buildListVolumesCommand",
               "buildListPartitionsCommand", "buildDetailDiskCommand",
               "buildCleanDiskCommand", "buildCleanAllCommand",
               "buildDeletePartitionCommand", "buildSetActiveCommand"} :
       Applied([fn |-> f],
          CASE f = "buildListDisksCommand" -> buildListDisksCommand
            [] f = "buildListVolumesCommand" -> buildListVolumesCommand
            [] f = "buildListPartitionsCommand" -> buildListPartitionsCommand
            [] f = "buildDetailDiskCommand" -> buildDetailDiskCommand
            [] f = "buildCleanDiskCommand" -> buildCleanDiskCommand
            [] f = "buildCleanAllCommand" -> buildCleanAllCommand
            [] f = "buildDeletePartitionCommand" -> buildDeletePartitionCommand
            [] f = "buildSetActiveCommand" -> buildSetActiveCommand)
  /\ UNCHANGED <<execVars, ipcVars, rendererVars>>

SelectDisk ==
  /\ call = NoCall
  /\ \E n \in Numbers :
       Applied([fn |-> "buildSelectDiskCommand", diskNumber |-> n],
               buildSelectDiskCommand(n))
  /\ UNCHANGED <<execVars, ipcVars, rendererVars>>

SelectPartition ==
  /\ call = NoCall
  /\ \E n \in Numbers :
       Applied([fn |-> "buildSelectPartitionCommand", partitionNumber |-> n],
               buildSelectPartitionCommand(n))
  /\ UNCHANGED <<execVars, ipcVars, rendererVars>>

CreatePartition ==
  /\ call = NoCall
  /\ \E size \in Numbers \cup {Undefined} :
       Applied([fn |-> "buildCreatePartitionCommand", size |-> size],
               buildCreatePartitionCommand(size))
  /\ UNCHANGED <<execVars, ipcVars, rendererVars>>

FormatVolume ==
  /\ call = NoCall
  /\ \E fileSystem \in FsNames, label \in LabelArgs, quick \in BOOLEAN :
       Applied([fn |-> "buildFormatVolumeCommand", fileSystem |-> fileSystem,
                label |-> label, quick |-> quick],
               buildFormatVolumeCommand(fileSystem, label, quick))
  /\ UNCHANGED <<execVars, ipcVars, rendererVars>>

AssignLetter ==
  /\ call = NoCall
  /\ \E letter \in LetterArgs :
       Applied([fn |-> "buildAssignLetterCommand", letter |-> letter],
               buildAssignLetterCommand(letter))
  /\ UNCHANGED <<execVars, ipcVars, rendererVars>>

RemoveLetter ==
  /\ call = NoCall
  /\ \E letter \in LetterArgs :
       Applied([fn |-> "buildRemoveLetterCommand", letter |-> letter],
               buildRemoveLetterCommand(letter))
  /\ UNCHANGED <<execVars, ipcVars, rendererVars>>

ExtendPartition ==
  /\ call = NoCall
  /\ \E size \in Numbers \cup {Undefined} :
       Applied([fn |-> "buildExtendPartitionCommand", size |-> size],
               buildExtendPartitionCommand(size))
  /\ UNCHANGED <<execVars, ipcVars, rendererVars>>

ShrinkPartition ==
  /\ call = NoCall
  /\ \E desired \in Numbers, minimum \in Numbers \cup {Undefined} :
       Applied([fn |-> "buildShrinkPartitionCommand", desired |-> desired,
                minimum |-> minimum],
               buildShrinkPartitionCommand(desired, minimum))
  /\ UNCHANGED <<execVars, ipcVars, rendererVars>>

CommandScript ==
  /\ call = NoCall
  /\ \E commands \in CommandLists :
       Applied([fn |-> "buildCommandScript", commands |-> commands],
               buildCommandScript(commands))
  /\ UNCHANGED <<execVars, ipcVars, rendererVars>>

NextBuilder ==
  \/ FixedInstruction
  \/ SelectDisk
  \/ SelectPartition
  \/ CreatePartition
  \/ FormatVolume
  \/ AssignLetter
  \/ RemoveLetter
  \/ ExtendPartition
  \/ ShrinkPartition
  \/ CommandScript

SpecBuilder == Init /\ [][NextBuilder]_vars

(* ---------------------- claims on the script builders ------------------ *)
\* the value of a number argument is a whole number
Whole(x) == \E k \in (-MaxNumber - 2)..(MaxNumber + 2) : x.halves = 2 * k

\* a supplied size that is zero, negative or not a whole number
BadSize(x) == x # Undefined /\ (~Whole(x) \/ x.halves <= 0)

\* one letter of the alphabet, in either case
AsciiLetter(letter) ==
  Len(letter) = 1 /\ \E k \in 1..26 : letter[1] \in {Upper[k], Lower[k]}

\* a file-system name equal to `name` up to the case of its ASCII letters
SameName(fileSystem, name) ==
  /\ Len(fileSystem) = Len(name)
  /\ \A k \in 1..Len(name) : LowerChar(fileSystem[k]) = LowerChar(name[k])

Supported == {<<"N","T","F","S">>, <<"F","A","T","3","2">>, <<"e","x","F","A","T">>, <<"F","A","T">>}

IsSupported(fileSystem) == \E name \in Supported : SameName(fileSystem, name)

\* a supplied label longer than the cap of the file system
LabelTooLong(fileSystem, label) ==
  /\ label # Undefined
  /\ Len(label.str) > (IF SameName(fileSystem, <<"N","T","F","S">>) THEN 32 ELSE 11)

\* C13: a script builder raises InvalidCommandError exactly when its
\* parameter is invalid: a disk number negative or not an integer, a
\* partition number below 1 or not an integer, a supplied size that is zero,
\* negative or not an integer, a drive letter that is not a single letter
\* A-Z, a label longer than 32 characters for NTFS or 11 for the other
\* file systems; the boundary values are accepted.
C13_RaisesExactlyWhenInvalid ==
  /\ call.fn = "buildSelectDiskCommand" =>
       (Raised(ret) <=> (~Whole(call.diskNumber) \/ call.diskNumber.halves < 0))
  /\ call.fn = "buildSelectPartitionCommand" =>
       (Raised(ret) <=> (~Whole(call.partitionNumber) \/ call.partitionNumber.halves < 2))
  /\ call.fn \in {"buildCreatePartitionCommand", "buildExtendPartitionCommand"} =>
       (Raised(ret) <=> BadSize(call.size))
  /\ call.fn = "buildShrinkPartitionCommand" =>
       (Raised(ret) <=> (BadSize(call.desired) \/ BadSize(call.minimum)))
  /\ call.fn \in {"buildAssignLetterCommand", "buildRemoveLetterCommand"} =>
       (Raised(ret) <=> ~AsciiLetter(call.letter))
  /\ (call.fn = "buildFormatVolumeCommand" /\ IsSupported(call.fileSystem)) =>
       (Raised(ret) <=> LabelTooLong(call.fileSystem, call.label))
  /\ call.fn # "none" => (Raised(ret) <=> "text" \notin DOMAIN ret)

\* C14: buildFormatVolumeCommand accepts each of NTFS, FAT32, exFAT and FAT
\* written in any letter case and renders its name in upper case in the
\* instruction; every other file-system name raises InvalidCommandError.
C14_FourFileSystemsInAnyCase ==
  call.fn = "buildFormatVolumeCommand" =>
    /\ (IsSupported(call.fileSystem) /\ ~LabelTooLong(call.fileSystem, call.label)) =>
         /\ ~Raised(ret)
         /\ StartsWith(ret.text, <<"f","o","r","m","a","t"," ","f","s","=">>
              \o [k \in 1..Len(call.fileSystem) |-> UpperChar(call.fileSystem[k])])
    /\ ~IsSupported(call.fileSystem) => Raised(ret)

\* C15: buildSelectDiskCommand(n) returns `select disk n` for every
\* non-negative integer n; the script that buildCommandScript makes of a
\* non-empty list of instructions holding a `select disk` instruction
\* splits on the newline into that list again; the empty list raises
\* InvalidCommandError.
C15_SelectDiskRoundTrip ==
  /\ (call.fn = "buildSelectDiskCommand" /\ Whole(call.diskNumber)
        /\ call.diskNumber.halves >= 0) =>
       /\ ~Raised(ret)
       /\ ret.text = <<"s","e","l","e","c","t"," ","d","i","s","k"," ">> \o NumberToString(call.diskNumber.halves \div 2)
  /\ call.fn = "buildCommandScript" =>
       IF call.commands = <<>>
         THEN Raised(ret)
         ELSE (\E k \in 1..Len(call.commands) :
                 StartsWith(call.commands[k], <<"s","e","l","e","c","t"," ","d","i","s","k"," ">>)) =>
              /\ ~Raised(ret)
              /\ SplitLines(ret.text) = call.commands

(* ======================================================================= *)
(* Output parsers (src/main/diskpart/parser.ts)                            *)
(* ======================================================================= *)
IsDigit(c) == \E k \in 1..10 : Digit[k] = c

DigitValue(c) == (CHOOSE k \in 1..10 : Digit[k] = c) - 1

\* the number a run of decimal digits denotes
RECURSIVE DigitsValue(_)
DigitsValue(ds) ==
  IF ds = <<>> THEN 0
  ELSE 10 * DigitsValue(SubSeq(ds, 1, Len(ds) - 1)) + DigitValue(ds[Len(ds)])

IsDigits(tok) == tok # <<>> /\ \A k \in 1..Len(tok) : IsDigit(tok[k])

\* last index of the run of digits, of white space, of other characters that
\* starts at p; p - 1 when the run is empty
RECURSIVE DigitRunEnd(_, _)
DigitRunEnd(s, p) ==
  IF p <= Len(s) /\ IsDigit(s[p]) THEN DigitRunEnd(s, p + 1) ELSE p - 1

RECURSIVE SpaceRunEnd(_, _)
SpaceRunEnd(s, p) ==
  IF p <= Len(s) /\ IsSpace(s[p]) THEN SpaceRunEnd(s, p + 1) ELSE p - 1

RECURSIVE WordEnd(_, _)
WordEnd(s, p) ==
  IF p <= Len(s) /\ ~IsSpace(s[p]) THEN WordEnd(s, p + 1) ELSE p - 1

\* the words of a line, each as <<first index, last index>>
RECURSIVE TokenSpans(_, _)
TokenSpans(s, p) ==
  IF p > Len(s) THEN <<>>
  ELSE IF IsSpace(s[p]) THEN TokenSpans(s, p + 1)
  ELSE <<<<p, WordEnd(s, p)>>>> \o TokenSpans(s, WordEnd(s, p) + 1)

\* line.split(/\s+/) of a trimmed line that is not empty
SplitSpace(line) ==
  LET spans == TokenSpans(line, 1)
  IN  [k \in 1..Len(spans) |-> SubSeq(line, spans[k][1], spans[k][2])]

(* A byte count can exceed the integers of the model checker (1 TB is 2^40), *)
(* so a count is kept as its digits in base 1024, lowest first; zero is the  *)
(* empty sequence.                                                           *)
Base == 1024

RECURSIVE Limbs(_)
Limbs(n) == IF n = 0 THEN <<>> ELSE <<n % Base>> \o Limbs(n \div Base)

\* no zero digits in the highest places
RECURSIVE Canon(_)
Canon(a) ==
  IF a # <<>> /\ a[Len(a)] = 0 THEN Canon(SubSeq(a, 1, Len(a) - 1)) ELSE a

RECURSIVE AddLimbs(_, _, _)
AddLimbs(a, b, carry) ==
  IF a = <<>> /\ b = <<>>
    THEN Limbs(carry)
    ELSE LET x == IF a = <<>> THEN 0 ELSE Head(a)
             y == IF b = <<>> THEN 0 ELSE Head(b)
             t == x + y + carry
         IN  <<t % Base>> \o AddLimbs(IF a = <<>> THEN <<>> ELSE Tail(a),
                                      IF b = <<>> THEN <<>> ELSE Tail(b),
                                      t \div Base)

RECURSIVE ScaleLimbs(_, _, _)
ScaleLimbs(a, d, carry) ==
  IF a = <<>>
    THEN Limbs(carry)
    ELSE LET t == Head(a) * d + carry
         IN  <<t % Base>> \o ScaleLimbs(Tail(a), d, t \div Base)

\* the product of two counts
RECURSIVE TimesLimbs(_, _)
TimesLimbs(a, b) ==
  IF a = <<>> THEN <<>>
  ELSE Canon(AddLimbs(ScaleLimbs(b, Head(a), 0),
                      <<0>> \o TimesLimbs(Tail(a), b), 0))

\* a regular expression did not match
NoMatch == [nomatch |-> TRUE]

\* the letter a case-insensitive regular expression compares
AsciiUpper(c) ==
  IF \E k \in 1..26 : Lower[k] = c
    THEN Upper[CHOOSE k \in 1..26 : Lower[k] = c]
    ELSE c

\* [KMGT]?B at position p, with or without the i flag: the text it matches,
\* empty when it does not match
UnitAt(s, p, ignoreCase) ==
  LET ch(q) == IF q > Len(s) THEN ""
               ELSE IF ignoreCase THEN AsciiUpper(s[q]) ELSE s[q]
  IN  IF ch(p) \in {"K", "M", "G", "T"} /\ ch(p + 1) = "B" THEN <<s[p], s[p + 1]>>
      ELSE IF ch(p) = "B" THEN <<s[p]>>
      ELSE <<>>

\* /(\d+)\s*([KMGT]?B)/i with its digits starting at p
SizeMatchAt(s, p) ==
  LET e == DigitRunEnd(s, p)
      w == SpaceRunEnd(s, e + 1)
      unit == UnitAt(s, w + 1, TRUE)
  IN  IF e < p \/ unit = <<>> THEN NoMatch
      ELSE [value |-> SubSeq(s, p, e), unit |-> unit]

\* sizeStr.match(...): the leftmost match
RECURSIVE SizeMatchFrom(_, _)
SizeMatchFrom(s, p) ==
  IF p > Len(s) THEN NoMatch
  ELSE IF SizeMatchAt(s, p) # NoMatch THEN SizeMatchAt(s, p)
  ELSE SizeMatchFrom(s, p + 1)

\* multipliers[unit] || 1
multipliers(unit) ==
  CASE unit = <<"B">> -> Limbs(1)
    [] unit = <<"K","B">> -> Limbs(1024)
    [] unit = <<"M","B">> -> Limbs(1024 * 1024)
    [] unit = <<"G","B">> -> Limbs(1024 * 1024 * 1024)
    [] unit = <<"T","B">> -> TimesLimbs(Limbs(1024 * 1024 * 1024), Limbs(1024))
    [] OTHER -> Limbs(1)

parseSize(sizeStr) ==
  LET match == SizeMatchFrom(sizeStr, 1)
  IN  IF match = NoMatch THEN Limbs(0)
      ELSE TimesLimbs(Limbs(DigitsValue(match.value)),
                      multipliers(ToUpperCase(match.unit)))

normalizeStatus(status) ==
  LET normalized == ToLowerCase(Trim(status))
  IN  IF Includes(normalized, <<"o","n","l","i","n","e">>) THEN "Online"
      ELSE IF Includes(normalized, <<"o","f","f","l","i","n","e">>) THEN "Offline"
      ELSE IF Includes(normalized, <<"n","o"," ","m","e","d","i","a">>) THEN "No Media"
      ELSE "Offline"

normalizeVolumeType(type) ==
  LET normalized == ToLowerCase(Trim(type))
  IN  IF Includes(normalized, <<"r","e","m","o","v","a","b","l","e">>) THEN "Removable"
      ELSE IF Includes(normalized, <<"c","d">>) \/ Includes(normalized, <<"d","v","d">>) THEN "CD-ROM"
      ELSE "Partition"

normalizePartitionType(type) ==
  LET normalized == ToLowerCase(Trim(type))
  IN  IF Includes(normalized, <<"e","x","t","e","n","d","e","d">>) THEN "Extended"
      ELSE IF Includes(normalized, <<"l","o","g","i","c","a","l">>) THEN "Logical"
      ELSE "Primary"

\* what a parser hands back: the list of records, or the error it raised
Value(list) == [value |-> list]
ThrowParseError(message) ==
  [threw |-> "ParseError", code |-> ParseError(message).code,
   message |-> ParseError(message).message]

\* output.split('\n').map(line => line.trim())
TrimmedLines(output) ==
  [k \in 1..Len(SplitLines(output)) |-> Trim(SplitLines(output)[k])]

\* lines.findIndex(line => line.includes(marker)), counted from 1; 0 is the
\* -1 of the code
FindHeader(lines, marker) ==
  IF \E k \in 1..Len(lines) : Includes(lines[k], marker)
    THEN CHOOSE k \in 1..Len(lines) :
           /\ Includes(lines[k], marker)
           /\ \A j \in 1..(k - 1) : ~Includes(lines[j], marker)
    ELSE 0

\* the header test left out: parsing goes on from the top of the text
HeaderMissing_Never(headerIndex) == FALSE

\* if (headerIndex === -1) throw new ParseError(...)
HeaderMissing(headerIndex) == headerIndex = 0

\* one line more skipped under the separator
DataLines_SkipThree(lines, headerIndex) == SubSeq(lines, headerIndex + 3, Len(lines))

\* lines.slice(headerIndex + 2): the header and the separator are skipped
DataLines(lines, headerIndex) == SubSeq(lines, headerIndex + 2, Len(lines))

EndsWith(s, suffix) ==
  Len(s) >= Len(suffix) /\ SubSeq(s, Len(s) - Len(suffix) + 1, Len(s)) = suffix

\* (?:\s+(\*))? at position p: the glyph captured, and where matching goes on
StarAt(line, p) ==
  LET w == SpaceRunEnd(line, p)
  IN  IF w >= p /\ w + 1 <= Len(line) /\ line[w + 1] = "*"
        THEN [marker |-> "*", next |-> w + 2]
        ELSE [marker |-> "", next |-> p]

\* the row expression of parseListDisk,
\*   Disk\s+(\d+)\s+(\S+(?:\s+\S+)*?)\s+(\d+\s+[KMGT]?B)\s+(\d+\s+[KMGT]?B)
\*   (?:\s+(\*))?\s*(?:\s+(\*))?
\* on the words of the line: the word at `at` ends with Disk, a number
\* follows, then `words` status words, then two sizes
DiskRowFits(line, spans, at, words) ==
  LET tok(k) == SubSeq(line, spans[k][1], spans[k][2])
  IN  /\ words >= 1
      /\ at + words + 5 <= Len(spans)
      /\ EndsWith(tok(at), <<"D","i","s","k">>)
      /\ IsDigits(tok(at + 1))
      /\ IsDigits(tok(at + words + 2))
      /\ UnitAt(tok(at + words + 3), 1, FALSE) = tok(at + words + 3)
      /\ IsDigits(tok(at + words + 4))
      /\ UnitAt(tok(at + words + 5), 1, FALSE) # <<>>

\* line.match(...): leftmost start, fewest status words, each star group
\* tried once where the match stands
DiskRowMatch(line) ==
  LET spans == TokenSpans(line, 1)
      n == Len(spans)
      fits == {aw \in (1..n) \X (1..n) : DiskRowFits(line, spans, aw[1], aw[2])}
  IN  IF fits = {} THEN NoMatch
      ELSE LET at == CHOOSE a \in 1..n :
                       /\ \E aw \in fits : aw[1] = a
                       /\ \A aw \in fits : aw[1] >= a
               words == CHOOSE w \in 1..n :
                          /\ <<at, w>> \in fits
                          /\ \A aw \in fits : aw[1] = at => aw[2] >= w
               freeUnit == UnitAt(line, spans[at + words + 5][1], FALSE)
               freeEnd == spans[at + words + 5][1] + Len(freeUnit) - 1
               dyn == StarAt(line, freeEnd + 1)
               gpt == StarAt(line, SpaceRunEnd(line, dyn.next) + 1)
           IN  [diskNum |-> SubSeq(line, spans[at + 1][1], spans[at + 1][2]),
                status |-> SubSeq(line, spans[at + 2][1], spans[at + words + 1][2]),
                sizeStr |-> SubSeq(line, spans[at + words + 2][1],
                                   spans[at + words + 3][2]),
                freeStr |-> SubSeq(line, spans[at + words + 4][1], freeEnd),
                dynMarker |-> dyn.marker,
                gptMarker |-> gpt.marker]

DiskInfo(match) ==
  [id |-> DigitsValue(match.diskNum),
   status |-> normalizeStatus(match.status),
   size |-> parseSize(match.sizeStr),
   free |-> parseSize(match.freeStr),
   isSystemDisk |-> FALSE,
   isBootDisk |-> FALSE,
   diskType |-> IF match.dynMarker = "*" THEN "Dynamic" ELSE "Basic",
   partitionStyle |-> IF match.gptMarker = "*" THEN "GPT" ELSE "MBR",
   partitions |-> <<>>]

\* the loop over the data lines of parseListDisk
RECURSIVE DiskRows(_)
DiskRows(dataLines) ==
  IF dataLines = <<>> THEN <<>>
  ELSE LET line == Head(dataLines)
       IN  (IF line = <<>> \/ ~StartsWith(line, <<"D","i","s","k"," ">>)
                 \/ DiskRowMatch(line) = NoMatch
              THEN <<>>
              ELSE <<DiskInfo(DiskRowMatch(line))>>)
           \o DiskRows(Tail(dataLines))

parseListDisk(output) ==
  LET lines == TrimmedLines(output)
      headerIndex == FindHeader(lines, <<"D","i","s","k"," ","#","#","#">>)
  IN  IF HeaderMissing(headerIndex)
        THEN ThrowParseError(<<"C","o","u","l","d"," ","n","o","t"," ","f","i","n","d"," ","d","i","s","k"," ","l","i","s","t"," ","h","e","a","d","e","r"," ","i","n"," ","o","u","t","p","u","t">>)
        ELSE Value(DiskRows(DataLines(lines, headerIndex)))

\* parts[i] of the code, i counted from 0: the word, or Undefined past the end
Part(parts, i) == IF i + 1 <= Len(parts) THEN Str(parts[i + 1]) ELSE Undefined

\* parts[i] || fallback
PartOr(parts, i, fallback) ==
  IF Part(parts, i) # Undefined /\ Part(parts, i).str # <<>>
    THEN Part(parts, i).str ELSE fallback

\* parts[i] inside a string concatenation
PartText(parts, i) ==
  IF Part(parts, i) # Undefined THEN Part(parts, i).str ELSE <<"u","n","d","e","f","i","n","e","d">>

\* parts.slice(from, to).join(' '), from and to counted from 0
SliceJoin(parts, from, to) ==
  Join(SubSeq(parts, from + 1, IF to < Len(parts) THEN to ELSE Len(parts)), <<" ">>)

\* ['NTFS', 'FAT32', 'FAT', 'exFAT', 'RAW']
volumeFileSystems == <<<<"N","T","F","S">>, <<"F","A","T","3","2">>, <<"F","A","T">>, <<"e","x","F","A","T">>, <<"R","A","W">>>>

\* parts.findIndex(p => [...].includes(p.toUpperCase())), counted from 0,
\* with the default position 4 when no word is found
FsIndex(parts) ==
  LET found == {k \in 1..Len(parts) :
                  ListIncludes(volumeFileSystems, ToUpperCase(parts[k]))}
  IN  IF found = {} THEN 4
      ELSE (CHOOSE k \in found : \A j \in found : j >= k) - 1

VolumeInfo(parts) ==
  LET fsIndex == FsIndex(parts)
      label == IF fsIndex > 3 THEN SliceJoin(parts, 3, fsIndex) ELSE <<>>
      sizeStr == PartText(parts, fsIndex + 2) \o <<" ">> \o PartText(parts, fsIndex + 3)
  IN  [letter |-> IF Len(parts[3]) = 1 THEN Str(parts[3]) ELSE Undefined,
       label |-> IF label # <<>> THEN Str(label) ELSE Undefined,
       fileSystem |-> PartOr(parts, fsIndex, <<"U","n","k","n","o","w","n">>),
       type |-> normalizeVolumeType(PartOr(parts, fsIndex + 1, <<"P","a","r","t","i","t","i","o","n">>)),
       size |-> parseSize(sizeStr),
       status |-> IF PartOr(parts, fsIndex + 4, <<"U","n","k","n","o","w","n">>) = <<"H","e","a","l","t","h","y">>
                    THEN "Healthy" ELSE "Failed",
       info |-> SliceJoin(parts, fsIndex + 5, Len(parts))]

\* the loop over the data lines of parseListVolume
RECURSIVE VolumeRows(_)
VolumeRows(dataLines) ==
  IF dataLines = <<>> THEN <<>>
  ELSE LET line == Head(dataLines)
       IN  (IF line = <<>> \/ ~StartsWith(line, <<"V","o","l","u","m","e"," ">>)
                 \/ Len(SplitSpace(line)) < 7
              THEN <<>>
              ELSE <<VolumeInfo(SplitSpace(line))>>)
           \o VolumeRows(Tail(dataLines))

parseListVolume(output) ==
  LET lines == TrimmedLines(output)
      headerIndex == FindHeader(lines, <<"V","o","l","u","m","e"," ","#","#","#">>)
  IN  IF HeaderMissing(headerIndex)
        THEN ThrowParseError(<<"C","o","u","l","d"," ","n","o","t"," ","f","i","n","d"," ","v","o","l","u","m","e"," ","l","i","s","t"," ","h","e","a","d","e","r"," ","i","n"," ","o","u","t","p","u","t">>)
        ELSE Value(VolumeRows(DataLines(lines, headerIndex)))

\* parseInt(text, 10) of a word: its leading digits, after a sign if there
\* is one; NaN when there are none
NaN == [nan |-> TRUE]

ParseInt(tok) ==
  LET signed == tok # <<>> /\ tok[1] \in {"-", "+"}
      first == IF signed THEN 2 ELSE 1
      last == DigitRunEnd(tok, first)
  IN  IF last < first THEN NaN
      ELSE IF signed /\ tok[1] = "-" THEN -DigitsValue(SubSeq(tok, first, last))
      ELSE DigitsValue(SubSeq(tok, first, last))

PartitionInfo(parts) ==
  [id |-> ParseInt(parts[2]),
   type |-> normalizePartitionType(parts[3]),
   size |-> parseSize(parts[4] \o <<" ">> \o parts[5]),
   offset |-> parseSize(PartText(parts, 5) \o <<" ">> \o PartText(parts, 6)),
   status |-> "Healthy"]

\* the loop over the data lines of parseListPartition
RECURSIVE PartitionRows(_)
PartitionRows(dataLines) ==
  IF dataLines = <<>> THEN <<>>
  ELSE LET line == Head(dataLines)
       IN  (IF line = <<>> \/ ~StartsWith(line, <<"P","a","r","t","i","t","i","o","n"," ">>)
                 \/ Len(SplitSpace(line)) < 5
              THEN <<>>
              ELSE <<PartitionInfo(SplitSpace(line))>>)
           \o PartitionRows(Tail(dataLines))

parseListPartition(output) ==
  LET lines == TrimmedLines(output)
      headerIndex == FindHeader(lines, <<"P","a","r","t","i","t","i","o","n"," ","#","#","#">>)
  IN  IF HeaderMissing(headerIndex)
        THEN ThrowParseError(<<"C","o","u","l","d"," ","n","o","t"," ","f","i","n","d"," ","p","a","r","t","i","t","i","o","n"," ","l","i","s","t"," ","h","e","a","d","e","r"," ","i","n"," ","o","u","t","p","u","t">>)
        ELSE Value(PartitionRows(DataLines(lines, headerIndex)))

(* ======================================================================= *)
(* The parsers applied to text                                             *)
(* ======================================================================= *)
\* the two lines diskpart prints above each table
DiskHeader == <<" "," ","D","i","s","k"," ","#","#","#"," "," ","S","t","a","t","u","s"," "," "," "," "," "," "," "," "," ","S","i","z","e"," "," "," "," "," ","F","r","e","e"," "," "," "," "," ","D","y","n"," "," ","G","p","t">>
DiskSeparator == <<" "," ","-","-","-","-","-","-","-","-"," "," ","-","-","-","-","-","-","-","-","-","-","-","-","-"," "," ","-","-","-","-","-","-","-"," "," ","-","-","-","-","-","-","-"," "," ","-","-","-"," "," ","-","-","-">>
VolumeHeader ==
  <<" "," ","V","o","l","u","m","e"," ","#","#","#"," "," ","L","t","r"," "," ","L","a","b","e","l"," "," "," "," "," "," "," "," ","F","s"," "," "," "," "," ","T","y","p","e"," "," "," "," "," "," "," "," ","S","i","z","e"," "," "," "," "," ","S","t","a","t","u","s"," "," "," "," "," ","I","n","f","o">>
VolumeSeparator ==
  <<" "," ","-","-","-","-","-","-","-","-","-","-"," "," ","-","-","-"," "," ","-","-","-","-","-","-","-","-","-","-","-"," "," ","-","-","-","-","-"," "," ","-","-","-","-","-","-","-","-","-","-"," "," ","-","-","-","-","-","-","-"," "," ","-","-","-","-","-","-","-","-","-"," "," ","-","-","-","-","-","-","-","-">>
PartitionHeader == <<" "," ","P","a","r","t","i","t","i","o","n"," ","#","#","#"," "," ","T","y","p","e"," "," "," "," "," "," "," "," "," "," "," "," "," "," ","S","i","z","e"," "," "," "," "," ","O","f","f","s","e","t">>
PartitionSeparator == <<" "," ","-","-","-","-","-","-","-","-","-","-","-","-","-"," "," ","-","-","-","-","-","-","-","-","-","-","-","-","-","-","-","-"," "," ","-","-","-","-","-","-","-"," "," ","-","-","-","-","-","-","-">>

\* rows of `list disk`, in the columns of the table: five that diskpart
\* prints, and five lines that are no disk row
DiskRowSamples ==
  {<<" "," ","D","i","s","k"," ","0"," "," "," "," ","O","n","l","i","n","e"," "," "," "," "," "," "," "," "," "," ","2","3","8"," ","G","B"," "," "," "," "," "," ","0"," ","B"," "," "," "," "," "," "," "," ","*">>,
   <<" "," ","D","i","s","k"," ","1"," "," "," "," ","O","n","l","i","n","e"," "," "," "," "," "," "," "," "," "," ","9","3","1"," ","G","B"," "," "," ","9","3","1"," ","G","B">>,
   <<" "," ","D","i","s","k"," ","2"," "," "," "," ","N","o"," ","M","e","d","i","a"," "," "," "," "," "," "," "," "," "," "," ","0"," ","B"," "," "," "," "," "," ","0"," ","B">>,
   <<" "," ","D","i","s","k"," ","3"," "," "," "," ","O","f","f","l","i","n","e"," "," "," "," "," "," "," "," "," "," ","1","0"," ","T","B"," "," "," ","5","1","2"," ","M","B"," "," "," ","*"," "," "," "," ","*">>,
   <<" "," ","D","i","s","k"," ","4"," "," "," "," ","O","n","l","i","n","e"," "," "," "," "," "," "," "," "," "," "," ","6","4"," ","G","B"," "," "," "," ","1","0"," ","G","B"," "," "," ","*">>,
   <<>>,
   <<"T","h","e","r","e"," ","a","r","e"," ","n","o"," ","f","i","x","e","d"," ","d","i","s","k","s"," ","t","o"," ","s","h","o","w",".">>,
   <<" "," ","D","i","s","k"," ","X"," "," "," "," ","O","n","l","i","n","e"," "," "," "," "," "," "," "," "," "," ","2","3","8"," ","G","B"," "," "," "," "," "," ","0"," ","B">>,
   <<" "," ","D","i","s","k"," ","5"," "," "," "," ","O","n","l","i","n","e"," "," "," "," "," "," "," "," "," "," ","1","0","0"," ","G","B">>,
   <<" "," ","D","i","s","k"," ","6"," "," "," "," ","O","n","l","i","n","e"," "," "," "," "," "," "," "," "," "," ","1","0","0"," ","X","B"," "," "," "," "," "," ","0"," ","B">>}

\* rows of `list volume`, in the columns of the table
VolumeRowSamples ==
  {<<" "," ","V","o","l","u","m","e"," ","0"," "," "," "," "," ","D"," "," "," ","D","a","t","a"," "," "," "," "," "," "," "," "," ","N","T","F","S"," "," "," ","P","a","r","t","i","t","i","o","n"," "," "," "," ","1","0","0"," ","G","B"," "," ","H","e","a","l","t","h","y">>,
   <<" "," ","V","o","l","u","m","e"," ","1"," "," "," "," "," ","C"," "," "," ","S","y","s","t","e","m"," "," "," "," "," "," "," ","N","T","F","S"," "," "," ","P","a","r","t","i","t","i","o","n"," "," "," "," ","1","3","8"," ","G","B"," "," ","H","e","a","l","t","h","y"," "," "," "," ","S","y","s","t","e","m">>,
   <<" "," ","V","o","l","u","m","e"," ","2"," "," "," "," "," "," "," "," "," ","R","e","c","o","v","e","r","y"," "," "," "," "," ","N","T","F","S"," "," "," ","P","a","r","t","i","t","i","o","n"," "," "," "," ","4","9","9"," ","M","B"," "," ","H","e","a","l","t","h","y"," "," "," "," ","H","i","d","d","e","n">>,
   <<" "," ","V","o","l","u","m","e"," ","3"," "," "," "," "," ","E"," "," "," "," "," "," "," "," "," "," "," "," "," "," "," "," ","F","A","T","3","2"," "," ","R","e","m","o","v","a","b","l","e"," "," "," "," "," ","1","4"," ","G","B"," "," ","H","e","a","l","t","h","y">>,
   <<" "," ","V","o","l","u","m","e"," ","4"," "," "," "," "," ","F"," "," "," ","M","y"," ","D","a","t","a"," "," "," "," "," "," ","e","x","F","A","T"," "," ","R","e","m","o","v","a","b","l","e"," "," "," "," "," ","3","2"," ","G","B"," "," ","H","e","a","l","t","h","y">>,
   <<" "," ","V","o","l","u","m","e"," ","5"," "," "," "," "," "," "," "," "," "," "," "," "," "," "," "," "," "," "," "," "," "," ","R","A","W"," "," "," "," ","P","a","r","t","i","t","i","o","n"," "," "," "," "," "," ","1"," ","T","B"," "," ","H","e","a","l","t","h","y">>,
   <<" "," ","V","o","l","u","m","e"," ","6"," "," "," "," "," ","G"," "," "," "," "," "," "," "," "," "," "," "," "," "," "," "," ","F","A","T"," "," "," "," ","P","a","r","t","i","t","i","o","n"," "," "," "," "," "," ","2"," ","G","B"," "," ","F","a","i","l","e","d">>}

PartitionRowSamples ==
  {<<" "," ","P","a","r","t","i","t","i","o","n"," ","1"," "," "," "," ","P","r","i","m","a","r","y"," "," "," "," "," "," "," "," "," "," "," "," ","1","0","0"," ","M","B"," "," ","1","0","2","4"," ","K","B">>,
   <<" "," ","P","a","r","t","i","t","i","o","n"," ","2"," "," "," "," ","P","r","i","m","a","r","y"," "," "," "," "," "," "," "," "," "," "," "," ","1","3","7"," ","G","B"," "," "," ","1","0","1"," ","M","B">>,
   <<" "," ","P","a","r","t","i","t","i","o","n"," ","3"," "," "," "," ","R","e","c","o","v","e","r","y"," "," "," "," "," "," "," "," "," "," "," ","4","9","9"," ","M","B"," "," "," ","1","3","7"," ","G","B">>}

RowLists(samples) == UNION {[1..n -> samples] : n \in 0..MaxRows}

\* the text of a table: a title, the header, the separator, the rows
Listing(header, separator, rows) ==
  Join(<<<<"D","I","S","K","P","A","R","T",">"," ">>, header, separator>> \o rows, <<"\n">>)

DiskListings ==
  {Listing(DiskHeader, DiskSeparator, rows) : rows \in RowLists(DiskRowSamples)}

VolumeListings ==
  {Listing(VolumeHeader, VolumeSeparator, rows) : rows \in RowLists(VolumeRowSamples)}

PartitionListings ==
  {Listing(PartitionHeader, PartitionSeparator, rows) :
     rows \in RowLists(PartitionRowSamples)}

\* text that holds no table: empty, a status line, rows without a header, a
\* header broken over two lines, a header in lower case
OtherTexts ==
  {<<>>,
   <<"D","i","s","k","P","a","r","t"," ","s","u","c","c","e","s","s","f","u","l","l","y"," ","c","l","e","a","n","e","d"," ","t","h","e"," ","d","i","s","k",".">>,
   <<"T","h","e","r","e"," ","a","r","e"," ","n","o"," ","p","a","r","t","i","t","i","o","n","s"," ","o","n"," ","t","h","i","s"," ","d","i","s","k"," ","t","o"," ","s","h","o","w",".">>,
   <<" "," ","D","i","s","k"," ","0"," "," "," "," ","O","n","l","i","n","e"," "," "," "," "," "," "," "," "," "," ","2","3","8"," ","G","B"," "," "," "," "," "," ","0"," ","B","\n"," "," ","D","i","s","k"," ","1"," "," "," "," ","O","n","l","i","n","e"," "," "," "," "," "," "," "," "," "," ","9","3","1"," ","G","B"," "," "," ","9","3","1"," ","G","B">>,
   <<" "," ","D","i","s","k","\n","#","#","#"," "," ","S","t","a","t","u","s"," "," "," "," "," "," "," "," "," ","S","i","z","e"," "," "," "," "," ","F","r","e","e"," "," "," "," "," ","D","y","n"," "," ","G","p","t","\n"," "," ","-","-","-","-","-","-","-","-","\n"," "," ","D","i","s","k"," ","0"," "," "," "," ","O","n","l","i","n","e"," "," "," "," "," "," "," "," "," "," ","2","3","8"," ","G","B"," "," "," "," "," "," ","0"," ","B">>,
   <<" "," ","d","i","s","k"," ","#","#","#"," "," ","s","t","a","t","u","s","\n"," "," ","-","-","-","-","-","-","-","-"," "," ","-","-","-","-","-","-","\n"," "," ","D","i","s","k"," ","0"," "," "," "," ","O","n","l","i","n","e"," "," "," "," "," "," "," "," "," "," ","2","3","8"," ","G","B"," "," "," "," "," "," ","0"," ","B">>,
   <<" "," ","V","o","l","u","m","e"," ","0"," "," "," "," "," ","D"," "," "," ","D","a","t","a"," "," "," "," "," "," "," "," "," ","N","T","F","S"," "," "," ","P","a","r","t","i","t","i","o","n"," "," "," "," ","1","0","0"," ","G","B"," "," ","H","e","a","l","t","h","y">>,
   <<" "," ","P","a","r","t","i","t","i","o","n"," ","1"," "," "," "," ","P","r","i","m","a","r","y"," "," "," "," "," "," "," "," "," "," "," "," ","1","0","0"," ","M","B"," "," ","1","0","2","4"," ","K","B">>}

Texts == DiskListings \cup VolumeListings \cup PartitionListings \cup OtherTexts

\* size strings: a count, a blank, a unit word
SizeCounts == {0, 1, 238, 1023, 1024}
UnitWords ==
  {<<"B">>, <<"K","B">>, <<"M","B">>, <<"G","B">>, <<"T","B">>, <<"P","B">>, <<"X","B">>, <<"G","i","B">>, <<"B","y","t","e","s">>,
   <<"s","e","c","t","o","r","s">>, <<>>}
SizeStrings ==
  {[count |-> n, unit |-> u, text |-> NumberToString(n) \o <<" ">> \o u] :
     n \in SizeCounts, u \in UnitWords}

isSuccessOutput(output) ==
  LET lowerOutput == ToLowerCase(output) IN
  IF Includes(lowerOutput, <<"d","i","s","k","p","a","r","t"," ","s","u","c","c","e","s","s","f","u","l","l","y">>) THEN TRUE
  ELSE IF Includes(lowerOutput, <<"c","o","m","p","l","e","t","e","d"," ","s","u","c","c","e","s","s","f","u","l","l","y">>) THEN TRUE
  ELSE IF Includes(lowerOutput, <<"e","r","r","o","r">>) THEN FALSE
  ELSE IF Includes(lowerOutput, <<"f","a","i","l","e","d">>) THEN FALSE
  ELSE IF Includes(lowerOutput, <<"a","c","c","e","s","s"," ","i","s"," ","d","e","n","i","e","d">>) THEN FALSE
  ELSE IF Includes(lowerOutput, <<"c","a","n","n","o","t">>) THEN FALSE
  ELSE Len(Trim(output)) > 0

extractErrorMessage_LastLine(output) ==
  LET lines == TrimmedLines(output)
      Marked(line) ==
        LET lowerLine == ToLowerCase(line) IN
          \/ Includes(lowerLine, <<"e","r","r","o","r">>)
          \/ Includes(lowerLine, <<"f","a","i","l","e","d">>)
          \/ Includes(lowerLine, <<"d","e","n","i","e","d">>)
          \/ Includes(lowerLine, <<"c","a","n","n","o","t">>)
  IN  IF \E k \in 1..Len(lines) : Marked(lines[k])
        THEN Str(lines[CHOOSE k \in 1..Len(lines) :
                         /\ Marked(lines[k])
                         /\ \A m \in (k + 1)..Len(lines) : ~Marked(lines[m])])
        ELSE Null

\* the loop returns at the first trimmed line holding one of the four words
extractErrorMessage(output) ==
  LET lines == TrimmedLines(output)
      Marked(line) ==
        LET lowerLine == ToLowerCase(line) IN
          \/ Includes(lowerLine, <<"e","r","r","o","r">>)
          \/ Includes(lowerLine, <<"f","a","i","l","e","d">>)
          \/ Includes(lowerLine, <<"d","e","n","i","e","d">>)
          \/ Includes(lowerLine, <<"c","a","n","n","o","t">>)
  IN  IF \E k \in 1..Len(lines) : Marked(lines[k])
        THEN Str(lines[CHOOSE k \in 1..Len(lines) :
                         /\ Marked(lines[k])
                         /\ \A m \in 1..(k - 1) : ~Marked(lines[m])])
        ELSE Null

\* tool outputs handed to the classifiers and extractors
ToolOutputs ==
  {<<>>, <<" "," ","\n","\t">>,
   <<"A","c","c","e","s","s"," ","i","s"," ","d","e","n","i","e","d",".">>,
   <<" "," ","A","C","C","E","S","S"," ","I","S"," ","D","E","N","I","E","D",".","\r","\n","D","i","s","k","P","a","r","t"," ","h","a","s"," ","e","n","c","o","u","n","t","e","r","e","d"," ","a","n"," ","e","r","r","o","r",".">>,
   <<"P","e","r","m","i","s","s","i","o","n"," ","d","e","n","i","e","d">>,
   <<"D","i","s","k","P","a","r","t"," ","s","u","c","c","e","s","s","f","u","l","l","y"," ","c","l","e","a","n","e","d"," ","t","h","e"," ","d","i","s","k",".">>,
   <<"D","i","s","k","P","a","r","t"," ","s","u","c","c","e","s","s","f","u","l","l","y"," ","f","o","r","m","a","t","t","e","d"," ","t","h","e"," ","v","o","l","u","m","e",".","\n","V","i","r","t","u","a","l"," ","D","i","s","k"," ","S","e","r","v","i","c","e"," ","e","r","r","o","r",":","\n"," "," ","T","h","e"," ","m","e","d","i","a"," ","i","s"," ","w","r","i","t","e"," ","p","r","o","t","e","c","t","e","d",".">>,
   <<"L","e","a","v","i","n","g"," ","D","i","s","k","P","a","r","t",".",".",".","\n"," "," "," ","T","h","e"," ","o","p","e","r","a","t","i","o","n"," ","F","A","I","L","E","D","."," "," "," ","\n","\n","D","i","s","k","P","a","r","t"," ","c","a","n","n","o","t"," ","d","e","l","e","t","e"," ","t","h","e"," ","p","a","r","t","i","t","i","o","n",".","\n">>,
   <<"\n","T","h","e","r","e"," ","i","s"," ","n","o"," ","d","i","s","k"," ","s","e","l","e","c","t","e","d",".","\n">>,
   <<"T","h","e"," ","a","r","g","u","m","e","n","t","s"," ","s","p","e","c","i","f","i","e","d"," ","f","o","r"," ","t","h","i","s"," ","c","o","m","m","a","n","d"," ","a","r","e"," ","n","o","t"," ","v","a","l","i","d",".","\n"," "," ","I","n","v","a","l","i","d"," ","d","i","s","k"," ","n","u","m","b","e","r">>,
   <<"T","h","e"," ","s","p","e","c","i","f","i","e","d"," ","v","o","l","u","m","e"," ","w","a","s"," ","n","o","t"," ","f","o","u","n","d",".">>,
   <<"V","o","l","u","m","e"," "," ","E"," "," ","i","s"," ","n","o","t","\n","f","o","u","n","d">>,
   <<"T","h","e"," ","f","o","r","m","a","t"," ","c","o","m","p","l","e","t","e","d"," ","s","u","c","c","e","s","s","f","u","l","l","y",","," ","t","h","e","n"," ","a"," ","l","a","t","e","r"," ","s","t","e","p"," ","f","a","i","l","e","d",".">>,
   <<" "," ","D","i","s","k"," ","#","#","#"," "," ","S","t","a","t","u","s"," "," "," "," "," "," "," "," "," ","S","i","z","e"," "," "," "," "," ","F","r","e","e"," "," "," "," "," ","D","y","n"," "," ","G","p","t">>}

IsSuccessOutput ==
  /\ call = NoCall
  /\ \E output \in ToolOutputs :
       Applied([fn |-> "isSuccessOutput", output |-> output],
               [value |-> isSuccessOutput(output)])
  /\ UNCHANGED <<execVars, ipcVars, rendererVars>>

ExtractErrorMessage ==
  /\ call = NoCall
  /\ \E output \in ToolOutputs :
       Applied([fn |-> "extractErrorMessage", output |-> output],
               extractErrorMessage(output))
  /\ UNCHANGED <<execVars, ipcVars, rendererVars>>

ParseListDisk ==
  /\ call = NoCall
  /\ \E output \in Texts :
       Applied([fn |-> "parseListDisk", output |-> output], parseListDisk(output))
  /\ UNCHANGED <<execVars, ipcVars, rendererVars>>

ParseListVolume ==
  /\ call = NoCall
  /\ \E output \in Texts :
       Applied([fn |-> "parseListVolume", output |-> output], parseListVolume(output))
  /\ UNCHANGED <<execVars, ipcVars, rendererVars>>

ParseListPartition ==
  /\ call = NoCall
  /\ \E output \in Texts :
       Applied([fn |-> "parseListPartition", output |-> output],
               parseListPartition(output))
  /\ UNCHANGED <<execVars, ipcVars, rendererVars>>

ParseSize ==
  /\ call = NoCall
  /\ \E sizeStr \in SizeStrings :
       Applied([fn |-> "parseSize", sizeStr |-> sizeStr.text,
                count |-> sizeStr.count, unit |-> sizeStr.unit],
               Value(parseSize(sizeStr.text)))
  /\ UNCHANGED <<execVars, ipcVars, rendererVars>>

NextParser ==
  \/ ParseListDisk
  \/ ParseListVolume
  \/ ParseListPartition
  \/ ParseSize
  \/ IsSuccessOutput
  \/ ExtractErrorMessage

SpecParser == Init /\ [][NextParser]_vars

(* -------------------------- claims on the parsers ---------------------- *)
\* the text is a table under the given header and separator
IsListing(output, header, separator) ==
  LET lines == SplitLines(output)
  IN  Len(lines) >= 3 /\ lines[2] = header /\ lines[3] = separator

\* the lines under the separator, as diskpart printed them
RowsOf(output) == SubSeq(SplitLines(output), 4, Len(SplitLines(output)))

\* what a row holds in column k of the table; the separator line marks the
\* columns, and the last column runs to the end of the row
Field(row, separator, k) ==
  LET spans == TokenSpans(separator, 1)
      last == IF k = Len(spans) \/ spans[k][2] > Len(row)
                THEN Len(row) ELSE spans[k][2]
  IN  Trim(SubSeq(row, spans[k][1], last))

Units == {<<"B">>, <<"K","B">>, <<"M","B">>, <<"G","B">>, <<"T","B">>}

Alphabetic(tok) ==
  \A k \in 1..Len(tok) : \E j \in 1..26 : tok[k] \in {Upper[j], Lower[j]}

\* a row of the shape Disk <n> <status words> <size> <unit> <free> <unit>
\* with up to two marker glyphs after it
WellFormedDiskRow(row) ==
  LET t == SplitSpace(row)
      n == Len(t)
  IN  \E w \in 1..n :
        /\ n >= w + 6
        /\ n <= w + 8
        /\ t[1] = <<"D","i","s","k">>
        /\ IsDigits(t[2])
        /\ \A k \in 3..(w + 2) : Alphabetic(t[k])
        /\ IsDigits(t[w + 3])
        /\ t[w + 4] \in Units
        /\ IsDigits(t[w + 5])
        /\ t[w + 6] \in Units
        /\ \A k \in (w + 7)..n : t[k] = <<"*">>

\* C16: a `list disk` row whose only `*` stands in the Gpt column gives a
\* disk record with partition style GPT and disk type Basic.
C16_StarUnderGptMeansGptBasic ==
  (call.fn = "parseListDisk" /\ IsListing(call.output, DiskHeader, DiskSeparator)) =>
    \A k \in 1..Len(RowsOf(call.output)) :
      LET row == RowsOf(call.output)[k] IN
      (/\ WellFormedDiskRow(row)
       /\ Field(row, DiskSeparator, 5) = <<>>
       /\ Field(row, DiskSeparator, 6) = <<"*">>) =>
        /\ ~Raised(ret)
        /\ \E j \in 1..Len(ret.value) :
             /\ ret.value[j].id = DigitsValue(SplitSpace(row)[2])
             /\ ret.value[j].partitionStyle = "GPT"
             /\ ret.value[j].diskType = "Basic"

\* the text each parser looks for
HeaderMarker(fn) ==
  CASE fn = "parseListDisk" -> <<"D","i","s","k"," ","#","#","#">>
    [] fn = "parseListVolume" -> <<"V","o","l","u","m","e"," ","#","#","#">>
    [] fn = "parseListPartition" -> <<"P","a","r","t","i","t","i","o","n"," ","#","#","#">>

ListParsers == {"parseListDisk", "parseListVolume", "parseListPartition"}

\* C17: parseListDisk, parseListVolume and parseListPartition raise
\* ParseError for every text that lacks the header marker of their table
\* (`Disk ###`, `Volume ###`, `Partition ###`).
C17_NoHeaderRaisesParseError ==
  (call.fn \in ListParsers /\ ~Includes(call.output, HeaderMarker(call.fn))) =>
    /\ Raised(ret)
    /\ ret.threw = "ParseError"
    /\ ret.code = "PARSE_ERROR"

\* parseListVolume was given the table of `list disk` and raised
C17_Witness ==
  /\ call.fn = "parseListVolume"
  /\ IsListing(call.output, DiskHeader, DiskSeparator)
  /\ Len(RowsOf(call.output)) = MaxRows
  /\ Raised(ret)
  /\ ret.threw = "ParseError"

\* the disk numbers of the well-formed rows, in the order of the rows
RECURSIVE WellFormedIds(_)
WellFormedIds(rows) ==
  IF rows = <<>> THEN <<>>
  ELSE (IF WellFormedDiskRow(Head(rows))
          THEN <<DigitsValue(SplitSpace(Head(rows))[2])>> ELSE <<>>)
       \o WellFormedIds(Tail(rows))

UnitRank(u) ==
  CASE u = <<"B">> -> 0 [] u = <<"K","B">> -> 1 [] u = <<"M","B">> -> 2
    [] u = <<"G","B">> -> 3 [] u = <<"T","B">> -> 4

\* n times 1024 to the power k
Scaled(n, k) == Canon([j \in 1..k |-> 0] \o Limbs(n))

\* C19: parseSize turns `<integer> <unit>` with unit B, KB, MB, GB or TB
\* into the integer times 1024 to the power 0, 1, 2, 3 or 4; for a size
\* string whose unit word is none of the five it gives 0; it never raises.
C19_SizeTimesPowerOf1024 ==
  call.fn = "parseSize" =>
    /\ ~Raised(ret)
    /\ IF call.unit \in Units
         THEN ret.value = Scaled(call.count, UnitRank(call.unit))
         ELSE ret.value = Limbs(0)

VolumeFsNames == {<<"N","T","F","S">>, <<"F","A","T","3","2">>, <<"F","A","T">>, <<"e","x","F","A","T">>, <<"R","A","W">>}

\* C20: for a `list volume` row whose Fs column holds NTFS, FAT32, FAT,
\* exFAT or RAW, parseListVolume returns that word as the file system, the
\* text between the drive-letter column and the file-system word as the
\* label, with or without a drive letter in the row, and the type, size,
\* status and info from the words after the file-system word.
C20_VolumeFieldsAroundFileSystem ==
  (call.fn = "parseListVolume"
     /\ IsListing(call.output, VolumeHeader, VolumeSeparator)) =>
    /\ ~Raised(ret)
    /\ Len(ret.value) = Len(RowsOf(call.output))
    /\ \A k \in 1..Len(RowsOf(call.output)) :
         LET row == RowsOf(call.output)[k]
             col(c) == Field(row, VolumeSeparator, c)
         IN  col(4) \in VolumeFsNames =>
               /\ ret.value[k].fileSystem = col(4)
               /\ ret.value[k].label =
                    (IF col(3) = <<>> THEN Undefined ELSE Str(col(3)))
               /\ ret.value[k].type = normalizeVolumeType(col(5))
               /\ ret.value[k].size = parseSize(col(6))
               /\ ret.value[k].status =
                    (IF col(7) = <<"H","e","a","l","t","h","y">> THEN "Healthy" ELSE "Failed")
               /\ ret.value[k].info = col(8)

\* a line of the output holds one of the words error, failed, denied, cannot
ErrorMarked(line) ==
  \E w \in {<<"e","r","r","o","r">>, <<"f","a","i","l","e","d">>, <<"d","e","n","i","e","d">>, <<"c","a","n","n","o","t">>} :
    Includes(ToLowerCase(line), w)

Blank(output) == \A k \in 1..Len(output) : IsSpace(output[k])

\* C21: extractErrorMessage returns the first line of the output, trimmed,
\* that holds an error marker, and null when no line does; for the output
\* "Access is denied." both classifiers report failure and the line comes
\* back as it is; and whenever a classifier reports failure on an output
\* that is not blank, its extractor returns a line
C21_FirstMarkedLineOrNull ==
  call.fn = "extractErrorMessage" =>
    LET output == call.output
        lines == SplitLines(output)
    IN  /\ (ret = Null) <=> (\A k \in 1..Len(lines) : ~ErrorMarked(lines[k]))
        /\ ret # Null =>
             \E k \in 1..Len(lines) :
               /\ ErrorMarked(lines[k])
               /\ \A m \in 1..(k - 1) : ~ErrorMarked(lines[m])
               /\ ret = Str(Trim(lines[k]))
        /\ output = <<"A","c","c","e","s","s"," ","i","s"," ","d","e","n","i","e","d",".">> =>
             /\ ~isSuccessOutput(output)
             /\ ~isCommandSuccessful(output)
             /\ ret = Str(output)
        /\ (~Blank(output) /\ ~isSuccessOutput(output)) => ret # Null
        /\ (~Blank(output) /\ ~isCommandSuccessful(output)) =>
             extractErrorFromOutput(output) # <<>>

C21_Witness ==
  /\ call.fn = "extractErrorMessage"
  /\ call.output = <<"A","c","c","e","s","s"," ","i","s"," ","d","e","n","i","e","d",".">>
  /\ ret = Str(<<"A","c","c","e","s","s"," ","i","s"," ","d","e","n","i","e","d",".">>)


(* ------------------------ claims on the timeout ------------------------- *)
\* exec sets error.killed only when it stopped the child itself, which with
\* the options of this call it does when the timer of the timeout option fires
RanPastTimeout(e) == e \in ExecErrors /\ e.killed

\* C22: a result with errorCode COMMAND_TIMEOUT is returned only when the
\* subprocess ran past the timeout of the call, 30000 ms by default and
\* 60000 ms for executeDestructiveCommand, and was stopped for it; a
\* subprocess that ended for another reason is never reported as a timeout
C22_TimeoutOnlyAfterTimeout ==
  \A i \in Invocations :
    (/\ Returned(i)
     /\ "errorCode" \in DOMAIN result[i]
     /\ result[i].errorCode = "COMMAND_TIMEOUT") =>
      /\ RanPastTimeout(error[i])
      /\ timeout[i] = IF entry[i] = "executeDestructiveCommand"
                        THEN DESTRUCTIVE_TIMEOUT ELSE DEFAULT_TIMEOUT


(* --------------------- claims on the lines of a script ------------------ *)
\* C26: every instruction a script builder returns for accepted parameters
\* is a single line, so an assembled script has exactly as many lines as
\* instructions were passed to buildCommandScript; no accepted volume label
\* adds a line to the format instruction
C26_OneLinePerInstruction ==
  LET builders == {"buildListDisksCommand", "buildListVolumesCommand",
                   "buildListPartitionsCommand", "buildDetailDiskCommand",
                   "buildCleanDiskCommand", "buildCleanAllCommand",
                   "buildDeletePartitionCommand", "buildSetActiveCommand",
                   "buildSelectDiskCommand", "buildSelectPartitionCommand",
                   "buildCreatePartitionCommand", "buildFormatVolumeCommand",
                   "buildAssignLetterCommand", "buildRemoveLetterCommand",
                   "buildExtendPartitionCommand", "buildShrinkPartitionCommand"}
  IN  /\ (call.fn \in builders /\ ~Raised(ret)) =>
           Len(SplitLines(ret.text)) = 1
      /\ (call.fn = "buildCommandScript" /\ ~Raised(ret)) =>
           Len(SplitLines(ret.text)) = Len(call.commands)


(* ======================================================================= *)
(* Renderer store (src/renderer/store/diskStore.ts)                         *)
(* ======================================================================= *)
\* what the list-disks handler answers on success: parseListDisk's records
\* of the disks of the machine, each online, 931 GB with 500 GB free
listDisksData ==
  [k \in 1..Cardinality(MachineDisks) |->
     DiskInfo([diskNum |-> NumberToString(k - 1), status |-> <<"O","n","l","i","n","e">>,
               sizeStr |-> <<"9","3","1"," ","G","B">>, freeStr |-> <<"5","0","0"," ","G","B">>,
               dynMarker |-> "", gptMarker |-> ""])]

\* what the list-partitions handler answers on success for a disk holding
\* the partitions ps: parseListPartition's records, in the order of the table
listPartitionsData(ps) ==
  [k \in 1..Cardinality(ps) |->
     PartitionInfo(<<<<"P","a","r","t","i","t","i","o","n">>,
                     NumberToString(CHOOSE p \in ps :
                                      Cardinality({q \in ps : q < p}) = k - 1),
                     <<"P","r","i","m","a","r","y">>, <<"1","0","0">>, <<"M","B">>, <<"1","0","2","4">>, <<"K","B">>>>)]

\* a disk or partition number as the store and the IPC calls carry it, and
\* the whole number it stands for
Id(n) == Num(2 * n)
IdOf(x) == x.halves \div 2

\* Array.prototype.find on id, || null
Find(list, id) ==
  IF \E k \in 1..Len(list) : Id(list[k].id) = id
    THEN list[CHOOSE k \in 1..Len(list) :
                /\ Id(list[k].id) = id
                /\ \A m \in 1..(k - 1) : Id(list[m].id) # id]
    ELSE Null

\* an asynchronous store action between its call and its return: pc is the
\* await it stands at ("ipc": the IPC call of an operation; "lists": the
\* listDisks and listVolumes calls named in wait; "partitions": the
\* listPartitions call for the disk query); dialog is set on the action that
\* handleConfirm of the confirmation dialog awaits; entered records what the
\* user left in the size field before the panel called the action
Task(action, diskId, partitionId, size, entered) ==
  [action |-> action, diskId |-> diskId, partitionId |-> partitionId,
   size |-> size, pc |-> "ipc", wait |-> {}, query |-> Null,
   dialog |-> FALSE, entered |-> entered]

\* fetchDisks, and the Promise.all of fetchDisks and fetchVolumes that
\* refreshAll opens with: each sets loading and sends its IPC call
fetchDisks ==
  [Task("fetchDisks", Null, Null, Null, Null)
     EXCEPT !.pc = "lists", !.wait = {"list-disks"}]
refreshAll ==
  [Task("refreshAll", Null, Null, Null, Null)
     EXCEPT !.pc = "lists", !.wait = {"list-disks", "list-volumes"}]
fetchPartitions(diskId) ==
  [Task("fetchPartitions", Null, Null, Null, Null)
     EXCEPT !.pc = "partitions", !.query = diskId]

\* the actions in flight once one more is called, once t has returned, and
\* once t has moved on to its next await
Started(t) == tasks (+) SetToBag({t})
Ended(t) == tasks (-) SetToBag({t})
Moved(t, next) == (tasks (-) SetToBag({t})) (+) SetToBag({next})

\* an IPC call resolves with success, resolves with success: false, or rejects
Outcomes == {"success", "failure", "exception"}

\* the else branch and the catch block of an action: set({ error: ...,
\* loading: false })
Failed_LoadingKept(s) == s

Failed(s) == [s EXCEPT !.loading = FALSE]

\* the panel once the action t has returned: finally { setExecuting(false) }
\* of the handleConfirm that awaited it
AfterReturn(t) ==
  IF t.dialog THEN [panel EXCEPT !.executing = FALSE] ELSE panel

\* the main process can carry the operation out on the machine
CanSucceed(t) ==
  CASE t.action \in {"cleanDisk", "cleanAllDisk", "detailDisk"} -> TRUE
    [] t.action = "createPartition" ->
         machine[IdOf(t.diskId)] # PartitionNumbers
    [] OTHER -> IdOf(t.partitionId) \in machine[IdOf(t.diskId)]

\* what the operation leaves on the disk
Effect(t) ==
  CASE t.action \in {"cleanDisk", "cleanAllDisk"} ->
         [machine EXCEPT ![IdOf(t.diskId)] = {}]
    [] t.action = "createPartition" ->
         [machine EXCEPT ![IdOf(t.diskId)] =
            @ \cup {CHOOSE p \in PartitionNumbers \ @ :
                      \A q \in PartitionNumbers \ @ : p <= q}]
    [] t.action = "deletePartition" ->
         [machine EXCEPT ![IdOf(t.diskId)] = @ \ {IdOf(t.partitionId)}]
    [] OTHER -> machine

\* useEffect of App: checkAdminStatus, then refreshAll
Mount ==
  /\ ~panel.mounted
  /\ panel' = [panel EXCEPT !.mounted = TRUE]
  /\ \E isAdmin \in BOOLEAN :
       store' = [store EXCEPT !.isAdmin = isAdmin, !.loading = TRUE]
  /\ tasks' = Started(refreshAll)
  /\ UNCHANGED <<machine, partitionsOf, execVars, ipcVars, pureVars>>

\* the dialogs of the panel are modal: the lists and buttons take clicks
\* only while none is open
Idle == panel.mounted /\ ~panel.confirmation.open /\ ~panel.input.open

\* a number or null used as a condition: null and 0 are falsy
NumberTruthy(x) == x # Null /\ x # Id(0)

\* selectDisk(record.id), from a row of the disk list; the list lies under
\* <Spin spinning={loading}> and takes no click while loading is set
selectDisk ==
  /\ Idle
  /\ ~store.loading
  /\ BagCardinality(tasks) < MaxTasks
  /\ \E k \in 1..Len(store.disks) :
       LET diskId == Id(store.disks[k].id) IN
       /\ store' = [store EXCEPT !.selectedDiskId = diskId,
                                 !.selectedDisk = Find(store.disks, diskId),
                                 !.selectedPartitionId = Null,
                                 !.loading = TRUE]
       /\ tasks' = Started(fetchPartitions(diskId))
  /\ UNCHANGED <<panel, machine, partitionsOf, execVars, ipcVars, pureVars>>

\* PartitionList: if (!selectedDiskId) it renders 'No disk selected' in
\* place of the table
PartitionListShown == NumberTruthy(store.selectedDiskId)

\* selectPartition(record.id), from a row of the partition list, which lies
\* under a Spin too
selectPartition ==
  /\ Idle
  /\ ~store.loading
  /\ PartitionListShown
  /\ \E k \in 1..Len(store.partitions) :
       store' = [store EXCEPT !.selectedPartitionId = Id(store.partitions[k].id)]
  /\ UNCHANGED <<tasks, panel, machine, partitionsOf, execVars, ipcVars, pureVars>>

\* handleRefreshAll on the F5 key, which App listens to whatever dialog is
\* open and whatever is loading: refreshAll()
Rescan ==
  /\ panel.mounted
  /\ BagCardinality(tasks) < MaxTasks
  /\ store' = [store EXCEPT !.loading = TRUE]
  /\ tasks' = Started(refreshAll)
  /\ UNCHANGED <<panel, machine, partitionsOf, execVars, ipcVars, pureVars>>

\* handleListDisks: fetchDisks(); the button spins, and takes no click,
\* while loading is set
ListDisks ==
  /\ Idle
  /\ ~store.loading
  /\ BagCardinality(tasks) < MaxTasks
  /\ store' = [store EXCEPT !.loading = TRUE]
  /\ tasks' = Started(fetchDisks)
  /\ UNCHANGED <<panel, machine, partitionsOf, execVars, ipcVars, pureVars>>

\* a listDisks or listVolumes call settles: fetchDisks or fetchVolumes sets
\* its list on success and loading to false on every path; when it was the
\* last of the Promise.all, refreshAll goes on to fetchPartitions for the
\* disk selected now, or ends, and an operation that awaited it returns
ListResponse ==
  \E t \in BagToSet(tasks), outcome \in Outcomes :
    /\ t.pc = "lists"
    /\ \E channel \in t.wait :
         LET got == IF channel = "list-disks" /\ outcome = "success"
                      THEN [store EXCEPT !.disks = listDisksData,
                                         !.loading = FALSE]
                      ELSE Failed(store)
         IN  IF t.wait # {channel}
               THEN /\ store' = got
                    /\ tasks' = Moved(t, [t EXCEPT !.wait = @ \ {channel}])
                    /\ UNCHANGED panel
             ELSE IF t.action # "fetchDisks" /\ got.selectedDiskId # Null
               THEN /\ store' = [got EXCEPT !.loading = TRUE]
                    /\ tasks' = Moved(t, [t EXCEPT !.pc = "partitions",
                                                   !.wait = {},
                                                   !.query = got.selectedDiskId])
                    /\ UNCHANGED panel
             ELSE /\ store' = got
                  /\ tasks' = Ended(t)
                  /\ panel' = AfterReturn(t)
    /\ UNCHANGED <<machine, partitionsOf, execVars, ipcVars, pureVars>>

\* a listPartitions call settles: fetchPartitions sets the list on success
\* and loading to false on every path; refreshAll and the operation that
\* awaited it return
PartitionsResponse ==
  \E t \in BagToSet(tasks), outcome \in Outcomes :
    /\ t.pc = "partitions"
    /\ IF outcome = "success"
         THEN /\ store' = [store EXCEPT
                             !.partitions = listPartitionsData(machine[IdOf(t.query)]),
                             !.loading = FALSE]
              /\ partitionsOf' = t.query
         ELSE /\ store' = Failed(store)
              /\ UNCHANGED partitionsOf
    /\ tasks' = Ended(t)
    /\ panel' = AfterReturn(t)
    /\ UNCHANGED <<machine, execVars, ipcVars, pureVars>>

\* the IPC call of a disk or partition operation settles: on success the
\* action awaits refreshAll (deletePartition clears the selected partition
\* first; detailDisk only returns) and its closing set({ loading: false })
\* repeats what the last fetch of refreshAll has set; otherwise it sets
\* loading to false
OperationResponse ==
  \E t \in BagToSet(tasks), outcome \in Outcomes :
    /\ t.pc = "ipc"
    /\ outcome = "success" => CanSucceed(t)
    /\ IF outcome = "success" /\ t.action # "detailDisk"
         THEN /\ machine' = Effect(t)
              /\ store' = [store EXCEPT
                             !.selectedPartitionId =
                                IF t.action = "deletePartition" THEN Null ELSE @,
                             !.loading = TRUE]
              /\ tasks' = Moved(t, [refreshAll EXCEPT !.dialog = t.dialog])
              /\ UNCHANGED panel
         ELSE /\ store' = IF outcome = "success"
                               THEN [store EXCEPT !.loading = FALSE]
                               ELSE Failed(store)
              /\ tasks' = Ended(t)
              /\ panel' = AfterReturn(t)
              /\ UNCHANGED machine
    /\ UNCHANGED <<partitionsOf, execVars, ipcVars, pureVars>>


(* ======================================================================= *)
(* Operations panel (src/renderer/components/OperationsPanel.tsx), safety  *)
(* checks (src/renderer/utils/safetyChecks.ts) and the two dialogs          *)
(* ======================================================================= *)
isSystemDisk(disk) ==
  IF disk = Null THEN FALSE ELSE disk.isSystemDisk \/ disk.isBootDisk

\* the warning texts are kept without the sign they open with
checkDiskOperationSafety(operation, disk) ==
  IF disk = Null
    THEN [safe |-> FALSE, warnings |-> <<"No disk selected">>,
          requiresTypeToConfirm |-> FALSE]
  ELSE
    LET system == IF isSystemDisk(disk)
                    THEN <<"This is a SYSTEM or BOOT disk",
                           "Operating on this disk may make your system unbootable">>
                    ELSE <<>>
        offline == IF disk.status = "Offline"
                     THEN <<"Disk is currently offline">> ELSE <<>>
        specific ==
          CASE operation \in {"clean", "clean_all"} ->
                 <<"ALL DATA on this disk will be PERMANENTLY DELETED",
                   "All partitions will be removed">>
            [] operation = "delete_partition" ->
                 <<"The selected partition and ALL its data will be deleted">>
            [] operation = "format" ->
                 <<"ALL DATA on the partition will be erased">>
            [] operation = "offline" /\ isSystemDisk(disk) ->
                 <<"Taking the system disk offline will crash your system">>
            [] OTHER -> <<>>
        warnings == system \o offline \o specific
        requiresTypeToConfirm ==
          \/ isSystemDisk(disk)
          \/ operation \in {"clean", "clean_all", "delete_partition", "format"}
    IN  [safe |-> warnings = <<>> \/ ~requiresTypeToConfirm,
         warnings |-> warnings,
         requiresTypeToConfirm |-> requiresTypeToConfirm]

\* called by the panel with 'delete_partition' or 'format'; a record of
\* parseListPartition has no driveLetter
checkPartitionOperationSafety(operation, disk, partition) ==
  IF disk = Null
    THEN [safe |-> FALSE, warnings |-> <<"No disk selected">>,
          requiresTypeToConfirm |-> FALSE]
  ELSE IF partition = Null
    THEN [safe |-> FALSE, warnings |-> <<"No partition selected">>,
          requiresTypeToConfirm |-> FALSE]
  ELSE
    LET system == IF isSystemDisk(disk)
                    THEN <<"This partition is on a SYSTEM or BOOT disk">>
                    ELSE <<>>
        status == IF partition.status \in {"System", "Boot"}
                    THEN <<"This is a " \o partition.status \o " partition",
                           "Modifying this partition may make your system unbootable">>
                    ELSE <<>>
        specific ==
          CASE operation = "delete_partition" ->
                 <<"The partition and ALL its data will be permanently deleted">>
            [] operation = "format" ->
                 <<"ALL DATA on this partition will be erased">>
            [] OTHER -> <<>>
        warnings == system \o status \o specific
        requiresTypeToConfirm ==
          \/ partition.status \in {"System", "Boot"}
          \/ operation \in {"delete_partition", "format"}
    IN  [safe |-> warnings = <<>> \/ ~requiresTypeToConfirm,
         warnings |-> warnings,
         requiresTypeToConfirm |-> requiresTypeToConfirm]

getConfirmationType(safetyCheck) ==
  IF safetyCheck.requiresTypeToConfirm THEN "type-to-confirm"
  ELSE IF Len(safetyCheck.warnings) > 0 THEN "detailed"
  ELSE "simple"

\* a is the larger of two counts
LimbsGreater(a, b) ==
  \/ Len(a) > Len(b)
  \/ /\ Len(a) = Len(b)
     /\ \E k \in 1..Len(a) :
          a[k] > b[k] /\ \A m \in (k + 1)..Len(a) : a[m] = b[m]

\* validatePartitionSize(size, disk).valid, size in bytes
validatePartitionSize(size, disk) ==
  /\ disk # Null
  /\ size # <<>>
  /\ ~LimbsGreater(size, disk.free)
  /\ ~LimbsGreater(Limbs(1024 * 1024), size)

\* disabled={...} of the buttons of the panel
DetailDisabled == ~NumberTruthy(store.selectedDiskId)
DiskOperationDisabled == ~NumberTruthy(store.selectedDiskId) \/ ~store.isAdmin
PartitionOperationDisabled ==
  \/ ~NumberTruthy(store.selectedDiskId)
  \/ ~NumberTruthy(store.selectedPartitionId)
  \/ ~store.isAdmin

\* const selectedPartition = partitions.find(...) || null
selectedPartition ==
  IF store.selectedPartitionId # Null
    THEN Find(store.partitions, store.selectedPartitionId)
    ELSE Null

\* showConfirmation: the dialog opens with an empty text field; diskId and
\* partitionId are the values the onConfirm closure holds
Confirmation(operation, type, values) ==
  [open |-> TRUE, operation |-> operation, type |-> type,
   diskId |-> store.selectedDiskId, partitionId |-> store.selectedPartitionId,
   values |-> values, typed |-> <<>>]

\* handleDetailDisk
DetailDisk ==
  /\ Idle
  /\ ~DetailDisabled
  /\ BagCardinality(tasks) < MaxTasks
  /\ store' = [store EXCEPT !.loading = TRUE]
  /\ tasks' = Started(Task("detailDisk", store.selectedDiskId, Null,
                          Null, Null))
  /\ UNCHANGED <<panel, machine, partitionsOf, execVars, ipcVars, pureVars>>

\* handleClean and handleCleanAll
Clean ==
  /\ Idle
  /\ ~DiskOperationDisabled
  /\ store.selectedDisk # Null
  /\ \E operation \in {"clean", "clean_all"} :
       panel' = [panel EXCEPT !.confirmation =
         Confirmation(operation,
           getConfirmationType(
             checkDiskOperationSafety(operation, store.selectedDisk)),
           Null)]
  /\ UNCHANGED <<store, tasks, machine, partitionsOf, execVars, ipcVars, pureVars>>

\* handleDeletePartition
DeletePartition ==
  /\ Idle
  /\ ~PartitionOperationDisabled
  /\ store.selectedDisk # Null
  /\ panel' = [panel EXCEPT !.confirmation =
       Confirmation("delete_partition",
         getConfirmationType(
           checkPartitionOperationSafety("delete_partition", store.selectedDisk,
                                         selectedPartition)),
         Null)]
  /\ UNCHANGED <<store, tasks, machine, partitionsOf, execVars, ipcVars, pureVars>>

\* handleFormat and handleCreatePartition: showInputDialog; the onConfirm
\* closure of handleFormat holds the safety check made at the click
OpenInput ==
  /\ Idle
  /\ \/ /\ ~PartitionOperationDisabled
        /\ store.selectedDisk # Null
        /\ panel' = [panel EXCEPT !.input =
             [open |-> TRUE, type |-> "format",
              diskId |-> store.selectedDiskId,
              partitionId |-> store.selectedPartitionId,
              confirmType |-> getConfirmationType(
                 checkPartitionOperationSafety("format", store.selectedDisk,
                                               selectedPartition))]]
     \/ /\ ~DiskOperationDisabled
        /\ panel' = [panel EXCEPT !.input =
             [open |-> TRUE, type |-> "create_partition",
              diskId |-> store.selectedDiskId,
              partitionId |-> store.selectedPartitionId,
              confirmType |-> "simple"]]
  /\ UNCHANGED <<store, tasks, machine, partitionsOf, execVars, ipcVars, pureVars>>

\* what the user may leave in the 'Size (MB)' field: nothing, 100
EnteredSizes == {Undefined, Num(200)}

\* handleOk of the input dialog on the create_partition form: a size is
\* turned into bytes, validated against the selected disk and handed on;
\* then the onConfirm closure of handleCreatePartition calls createPartition
CreatePartitionOk ==
  /\ panel.input.open
  /\ panel.input.type = "create_partition"
  /\ BagCardinality(tasks) < MaxTasks
  /\ \E entered \in EnteredSizes :
       LET sizeInBytes == IF entered = Undefined THEN Undefined
                          ELSE Num(entered.halves * 1024 * 1024)
       IN  /\ entered # Undefined =>
                validatePartitionSize(
                  TimesLimbs(Limbs(IdOf(entered)), Limbs(1024 * 1024)),
                  store.selectedDisk)
           /\ tasks' = Started(Task("createPartition", panel.input.diskId,
                                    Null, sizeInBytes, entered))
  /\ panel' = [panel EXCEPT !.input = [open |-> FALSE]]
  /\ store' = [store EXCEPT !.loading = TRUE]
  /\ UNCHANGED <<machine, partitionsOf, execVars, ipcVars, pureVars>>

\* handleOk of the input dialog on the format form (file system NTFS, no
\* label): the onConfirm closure of handleFormat opens the confirmation
FormatOk ==
  /\ panel.input.open
  /\ panel.input.type = "format"
  /\ panel' = [panel EXCEPT
       !.input = [open |-> FALSE],
       !.confirmation =
          [Confirmation("format", panel.input.confirmType,
                        [fileSystem |-> <<"N","T","F","S">>, label |-> Undefined])
             EXCEPT !.diskId = panel.input.diskId,
                    !.partitionId = panel.input.partitionId]]
  /\ UNCHANGED <<store, tasks, machine, partitionsOf, execVars, ipcVars, pureVars>>

\* handleCancel of the input dialog
InputCancel ==
  /\ panel.input.open
  /\ panel' = [panel EXCEPT !.input = [open |-> FALSE]]
  /\ UNCHANGED <<store, tasks, machine, partitionsOf, execVars, ipcVars, pureVars>>

\* texts the user may type into the confirmation dialog
TypedTexts == {<<>>, <<"0">>, <<"1">>}

\* onChange of the text field of the confirmation dialog, which is rendered
\* unless an operation confirmed earlier is still executing
TypeText ==
  /\ panel.confirmation.open
  /\ ~panel.executing
  /\ panel.confirmation.type = "type-to-confirm"
  /\ \E text \in TypedTexts :
       /\ text # panel.confirmation.typed
       /\ panel' = [panel EXCEPT !.confirmation.typed = text]
  /\ UNCHANGED <<store, tasks, machine, partitionsOf, execVars, ipcVars, pureVars>>

\* diskId={selectedDiskId || undefined}, then
\* diskId !== undefined ? diskId.toString() : ''
expectedText ==
  IF NumberTruthy(store.selectedDiskId)
    THEN NumberText(store.selectedDiskId) ELSE <<>>

\* the store action the onConfirm closure of an operation calls
StoreAction(operation) ==
  CASE operation = "clean" -> "cleanDisk"
    [] operation = "clean_all" -> "cleanAllDisk"
    [] operation = "delete_partition" -> "deletePartition"
    [] operation = "format" -> "formatPartition"

\* handleConfirm: if (type === 'type-to-confirm' && inputValue !==
\* expectedText) return; the OK button is disabled on the same condition
ConfirmAllowed(c) == c.type = "type-to-confirm" => c.typed = expectedText

\* handleConfirm, from the OK button, which spins and takes no click while
\* executing is set: setExecuting(true), then onConfirm: closeConfirmation
\* and the store action with the disk and partition the closure holds
Confirm ==
  /\ panel.confirmation.open
  /\ ~panel.executing
  /\ ConfirmAllowed(panel.confirmation)
  /\ BagCardinality(tasks) < MaxTasks
  /\ LET c == panel.confirmation IN
     tasks' = Started(
       [Task(StoreAction(c.operation), c.diskId,
             IF c.operation \in {"clean", "clean_all"} THEN Null ELSE c.partitionId,
             Null, Null)
          EXCEPT !.dialog = TRUE])
  /\ panel' = [panel EXCEPT !.confirmation = [open |-> FALSE],
                            !.executing = TRUE]
  /\ store' = [store EXCEPT !.loading = TRUE]
  /\ UNCHANGED <<machine, partitionsOf, execVars, ipcVars, pureVars>>

\* handleCancel of the confirmation dialog, whose Cancel button and close
\* box are disabled while executing is set: closeConfirmation only
Cancel ==
  /\ panel.confirmation.open
  /\ ~panel.executing
  /\ panel' = [panel EXCEPT !.confirmation = [open |-> FALSE]]
  /\ UNCHANGED <<store, tasks, machine, partitionsOf, execVars, ipcVars, pureVars>>

NextRenderer ==
  \/ Mount
  \/ selectDisk
  \/ selectPartition
  \/ Rescan
  \/ ListDisks
  \/ ListResponse
  \/ PartitionsResponse
  \/ OperationResponse
  \/ DetailDisk
  \/ Clean
  \/ DeletePartition
  \/ OpenInput
  \/ CreatePartitionOk
  \/ FormatOk
  \/ InputCancel
  \/ TypeText
  \/ Confirm
  \/ Cancel

SpecRenderer == Init /\ [][NextRenderer]_vars

(* ------------------- claims on the store and the panel ------------------ *)
\* the store actions of the destructive operations
DestructiveActions ==
  {"cleanDisk", "cleanAllDisk", "deletePartition", "formatPartition"}

\* the step calls the store action t
Called(t) == CopiesIn(t, tasks') > CopiesIn(t, tasks)

\* C23: a destructive operation (clean, clean all, delete partition, format)
\* reaches its store action only from a confirmation dialog of type
\* 'type-to-confirm' in which the typed text is the identifier of the
\* selected disk, whatever selections, refreshes and operations went before
C23_TypeToConfirmBeforeDestructive ==
  [][\A t \in BagToSet(tasks') :
       (t.pc = "ipc" /\ t.action \in DestructiveActions /\ Called(t)) =>
         /\ panel.confirmation.open
         /\ panel.confirmation.type = "type-to-confirm"
         /\ store.selectedDiskId # Null
         /\ panel.confirmation.typed = NumberText(store.selectedDiskId)]_vars

\* C24: once the disk list is loaded and a disk selected, a disk that is the
\* boot or system disk of the machine has isBootDisk or isSystemDisk set in
\* selectedDisk, and checkDiskOperationSafety warns of a SYSTEM or BOOT disk
\* for every operation on it
C24_SystemDiskFlagged ==
  (store.selectedDisk # Null /\ store.selectedDisk.id \in BootDisks) =>
    /\ store.selectedDisk.isBootDisk \/ store.selectedDisk.isSystemDisk
    /\ \A operation \in {"detail", "clean", "clean_all", "create_partition",
                          "delete_partition", "format"} :
         LET warnings ==
               checkDiskOperationSafety(operation, store.selectedDisk).warnings
         IN  \E k \in 1..Len(warnings) :
               warnings[k] = "This is a SYSTEM or BOOT disk"

\* C25: when the user entered S in the 'Size (MB)' field, the script of the
\* create-partition handler holds the line `create partition primary size=S`
C25_SizeInMegabytes ==
  \A t \in BagToSet(tasks) :
    (t.action = "createPartition" /\ t.entered # Undefined) =>
      LET script == ScriptOf(<<buildSelectDiskCommand(t.diskId),
                               buildCreatePartitionCommand(t.size)>>)
      IN  /\ ~Raised(script)
          /\ \E k \in 1..Len(SplitLines(script.text)) :
               SplitLines(script.text)[k] =
                 <<"c","r","e","a","t","e"," ","p","a","r","t","i","t","i","o","n"," ","p","r","i","m","a","r","y"," ","s","i","z","e","=">> \o NumberText(t.entered)

\* C27: when the response that ends the last fetch in flight replaces the
\* partition list while a disk is selected, the list it leaves is the answer
\* to a query for that disk: a response for a disk selected earlier never
\* replaces the list of the disk selected later
C27_ListOfSelectedDisk ==
  [][(tasks' = EmptyBag /\ store'.partitions # store.partitions
        /\ store'.selectedDiskId # Null) =>
       partitionsOf' = store'.selectedDiskId]_vars

\* C28: selectedPartitionId is null or the id of a partition of the current
\* partitions list
C28_SelectedPartitionListed ==
  store.selectedPartitionId # Null =>
    Find(store.partitions, store.selectedPartitionId) # Null

\* C29: with a disk selected, disk 0 included, and administrator privileges
\* the disk-level operations of the panel are enabled and the partition list
\* of the disk is shown
C29_DiskOperationsEnabled ==
  (store.selectedDiskId # Null /\ store.isAdmin) =>
    /\ ~DetailDisabled
    /\ ~DiskOperationDisabled
    /\ PartitionListShown

\* C30: every asynchronous action leaves loading false when it returns, on
\* its success path, its failure-response path and its exception path; so
\* once every action in flight has returned, loading is false
C30_LoadingFalseWhenNoneInFlight ==
  /\ [](tasks = EmptyBag => ~store.loading)
  /\ [][BagCardinality(tasks') < BagCardinality(tasks) => ~store'.loading]_vars

\* an operation has changed the machine, a partition list has been fetched
\* and every action has returned
C30_Witness ==
  /\ panel.mounted
  /\ tasks = EmptyBag
  /\ machine # InitialPartitions
  /\ partitionsOf # Null

====
